---- MODULE Spec2Model ----
(***************************************************************************)
(* Job Notification Tracker (src/src/App.tsx): match scoring, preferences, *)
(* job status and saved-job stores, browser storage, and the daily digest. *)
(*                                                                         *)
(* Text values (role keywords, skills, titles, descriptions) are sequences *)
(* of one-character strings, so that split/trim/toLowerCase/includes are   *)
(* computed as the code computes them.  A calendar date is its day number; *)
(* the digest key "jobTrackerDigest_YYYY-MM-DD" is one-to-one with it.     *)
(***************************************************************************)
EXTENDS Integers, Sequences, FiniteSets, TLC

VARIABLES
  catalog,          \* JOBS, the imported fixture (src/data/jobs is not in src/)
  today,            \* the local calendar date new Date() reports
  route,            \* the page <Routes> renders
  started,          \* App has mounted and run its mount effects
  crashed,          \* an error escaped a render or an effect: React unmounted the tree
  storageWritable,  \* FALSE while window.localStorage.setItem raises
  localStorage,     \* window.localStorage, one field per key
  bootStorage,      \* history: localStorage as App found it when it mounted
  savedJobIds,      \* App state
  preferences,      \* App state
  jobStatuses,      \* App state
  toastMessage,     \* App state
  digestKey,        \* DigestPage state: date captured at mount (0: not mounted)
  digest,           \* DigestPage state
  isGenerating,     \* DigestPage state
  noMatchesToday,   \* DigestPage state
  filters,          \* JobsDashboard state
  showOnlyMatches,  \* JobsDashboard state
  filteredJobs,     \* JobsDashboard's filteredJobs memo: the view it renders
  draft,            \* the digest text last handed to the clipboard or the mail client
  toastTimers,      \* the pending window.setTimeout calls of the toast effect
  effectTimerPending, \* the timer the toast effect's cleanup holds is still pending
  lastOp            \* history: the handler that ran last and the path it took

vars == <<catalog, today, route, started, crashed, storageWritable, localStorage,
          bootStorage, savedJobIds, preferences, jobStatuses, toastMessage,
          digestKey, digest, isGenerating, noMatchesToday, filters,
          showOnlyMatches, filteredJobs, draft, toastTimers, effectTimerPending,
          lastOp>>

dashboardVars == <<filters, showOnlyMatches, filteredJobs>>

toastVars == <<toastTimers, effectTimerPending>>

----------------------------------------------------------------------------
(* Bounds *)

MaxDay == 2         \* calendar dates 1..MaxDay
BigCatalogSize == 12 \* jobs in the large candidate catalog

Days == 1..MaxDay

----------------------------------------------------------------------------
(* Text *)

Min(a, b) == IF a <= b THEN a ELSE b

\* String.prototype.toLowerCase, on the letters the model's texts use
LowerChar(c) ==
  CASE c = "R" -> "r"
    [] c = "J" -> "j"
    [] c = "S" -> "s"
    [] c = "Q" -> "q"
    [] c = "L" -> "l"
    [] c = "C" -> "c"
    [] c = "A" -> "a"
    [] c = "K" -> "k"
    [] c = "P" -> "p"
    [] OTHER -> c

toLowerCase(s) == [i \in 1..Len(s) |-> LowerChar(s[i])]

RECURSIVE trimStart(_)
trimStart(s) ==
  IF Len(s) > 0 /\ Head(s) = " " THEN trimStart(Tail(s)) ELSE s

RECURSIVE trimEnd(_)
trimEnd(s) ==
  IF Len(s) > 0 /\ s[Len(s)] = " " THEN trimEnd(SubSeq(s, 1, Len(s) - 1)) ELSE s

\* String.prototype.trim
trim(s) == trimEnd(trimStart(s))

\* String.prototype.includes
includes(hay, needle) ==
  \E i \in 1..(Len(hay) - Len(needle) + 1) :
    SubSeq(hay, i, i + Len(needle) - 1) = needle

\* mutant: only the last element is looked at
arrayIncludesLast(arr, x) == Len(arr) > 0 /\ arr[Len(arr)] = x

\* Array.prototype.includes
arrayIncludes(arr, x) == \E i \in 1..Len(arr) : arr[i] = x

\* String.prototype.split(','): "" gives [""], "a," gives ["a", ""]
RECURSIVE split(_)
split(s) ==
  IF \A i \in 1..Len(s) : s[i] # ","
  THEN <<s>>
  ELSE LET i == CHOOSE k \in 1..Len(s) :
                  s[k] = "," /\ \A m \in 1..(k - 1) : s[m] # ","
       IN  <<SubSeq(s, 1, i - 1)>> \o split(SubSeq(s, i + 1, Len(s)))

RECURSIVE filterNonEmpty(_)
filterNonEmpty(tokens) ==
  IF tokens = <<>> THEN <<>>
  ELSE IF Len(Head(tokens)) = 0 THEN filterNonEmpty(Tail(tokens))
  ELSE <<Head(tokens)>> \o filterNonEmpty(Tail(tokens))

splitCommaSeparated(value) ==
  LET parts == split(value)
  IN  filterNonEmpty([i \in 1..Len(parts) |-> toLowerCase(trim(parts[i]))])

----------------------------------------------------------------------------
(* The job catalog.  JOBS is imported from ./data/jobs, which is not part  *)
(* of src/: the model draws it from candidate catalogs.                    *)

TxtReact   == <<"R", "e", "a", "c", "t">>
TxtJava    == <<"J", "a", "v", "a">>
TxtQA      == <<"Q", "A">>
TxtReactUi == <<"r", "e", "a", "c", "t", " ", "u", "i">>
TxtSqlApi  == <<"S", "Q", "L", " ", "a", "p", "i">>
TxtMisc    == <<"m", "i", "s", "c">>
TxtSQL     == <<"S", "Q", "L">>
TxtCss     == <<"c", "s", "s">>
TxtAcme    == <<"A", "c", "m", "e">>
Txt12LPA   == <<"1", "2", " ", "L", "P", "A">>
Txt8k      == <<"8", "k">>

Modes       == <<"Remote", "Hybrid", "Onsite">>
Experiences == <<"Fresher", "0-1", "1-3", "3-5">>
Sources     == <<"LinkedIn", "Naukri", "Indeed", "Naukri">>
Locations   == <<"Pune", "Delhi">>

\* the i-th job of the large catalog
MkJob(i) ==
  [ id            |-> i,
    title         |-> <<TxtReact, TxtJava, TxtQA>>[(i % 3) + 1],
    company       |-> TxtAcme,
    location      |-> Locations[((i \div 2) % 2) + 1],
    mode          |-> Modes[(i % 3) + 1],
    experience    |-> Experiences[(i % 4) + 1],
    salaryRange   |-> IF i % 2 = 0 THEN Txt12LPA ELSE Txt8k,
    source        |-> Sources[(i % 4) + 1],
    skills        |-> IF i % 3 = 0 THEN <<TxtReact, TxtCss>> ELSE <<TxtSQL>>,
    description   |-> IF i % 2 = 0 THEN TxtReactUi ELSE TxtSqlApi,
    postedDaysAgo |-> i % 5 ]

BigCatalog == [i \in 1..BigCatalogSize |-> MkJob(i)]

\* a catalog in which no job earns the recency or the source bonus
OldCatalog ==
  << [ id |-> 1, title |-> TxtReact, company |-> TxtAcme, location |-> "Pune",
       mode |-> "Remote", experience |-> "Fresher", salaryRange |-> Txt8k,
       source |-> "Naukri", skills |-> <<TxtReact>>, description |-> TxtMisc,
       postedDaysAgo |-> 3 ],
     [ id |-> 2, title |-> TxtJava, company |-> TxtAcme, location |-> "Delhi",
       mode |-> "Onsite", experience |-> "1-3", salaryRange |-> Txt12LPA,
       source |-> "Indeed", skills |-> <<TxtSQL>>, description |-> TxtSqlApi,
       postedDaysAgo |-> 10 ],
     [ id |-> 3, title |-> TxtQA, company |-> TxtAcme, location |-> "Pune",
       mode |-> "Hybrid", experience |-> "1-3", salaryRange |-> Txt8k,
       source |-> "Naukri", skills |-> <<TxtCss>>, description |-> TxtReactUi,
       postedDaysAgo |-> 3 ] >>

Catalogs == {BigCatalog, OldCatalog}

----------------------------------------------------------------------------
(* Preferences and the match score *)

defaultPreferences ==
  [ roleKeywords       |-> <<>>,
    preferredLocations |-> <<>>,
    preferredModes     |-> <<>>,
    experienceLevel    |-> "",
    skills             |-> <<>>,
    minMatchScore      |-> 40 ]

\* roleKeywords.some((kw) => text.includes(kw))
someIncluded(keywords, text) ==
  \E i \in 1..Len(keywords) : includes(text, keywords[i])

\* jobSkillsLower.some((skill) => prefSkills.includes(skill))
hasOverlap(jobSkills, prefSkills) ==
  \E i \in 1..Len(jobSkills) : arrayIncludes(prefSkills, toLowerCase(jobSkills[i]))

\* mutant: the description is tested only when the title does not match
keywordPointsElseIf(roleKeywords, titleLower, descriptionLower) ==
  IF Len(roleKeywords) > 0
  THEN IF someIncluded(roleKeywords, titleLower) THEN 25
       ELSE IF someIncluded(roleKeywords, descriptionLower) THEN 15 ELSE 0
  ELSE 0

\* lines 58-65: the title and the description are tested independently
keywordPoints(roleKeywords, titleLower, descriptionLower) ==
  IF Len(roleKeywords) > 0
  THEN (IF someIncluded(roleKeywords, titleLower) THEN 25 ELSE 0)
       + (IF someIncluded(roleKeywords, descriptionLower) THEN 15 ELSE 0)
  ELSE 0

\* mutant: score = 10 in place of score += 10
addExperienceAssigned(score, job, prefs) ==
  IF prefs.experienceLevel # "" /\ prefs.experienceLevel = job.experience
  THEN 10 ELSE score

\* lines 79-81
addExperience(score, job, prefs) ==
  IF prefs.experienceLevel # "" /\ prefs.experienceLevel = job.experience
  THEN score + 10 ELSE score

computeMatchScore(job, prefs) ==
  LET roleKeywords     == splitCommaSeparated(prefs.roleKeywords)
      prefSkills       == splitCommaSeparated(prefs.skills)
      titleLower       == toLowerCase(job.title)
      descriptionLower == toLowerCase(job.description)
      s2 == keywordPoints(roleKeywords, titleLower, descriptionLower)
      s3 == s2 + (IF Len(prefs.preferredLocations) > 0
                     /\ arrayIncludes(prefs.preferredLocations, job.location)
                  THEN 15 ELSE 0)
      s4 == s3 + (IF Len(prefs.preferredModes) > 0
                     /\ arrayIncludes(prefs.preferredModes, job.mode)
                  THEN 10 ELSE 0)
      s5 == addExperience(s4, job, prefs)
      s6 == s5 + (IF Len(prefSkills) > 0 /\ hasOverlap(job.skills, prefSkills)
                  THEN 15 ELSE 0)
      s7 == s6 + (IF job.postedDaysAgo <= 2 THEN 5 ELSE 0)
      s8 == s7 + (IF job.source = "LinkedIn" THEN 5 ELSE 0)
  IN  Min(s8, 100)

\* mutant: the texts are tested without trim()
hasPreferencesUntrimmed(prefs) ==
  \/ Len(prefs.roleKeywords) > 0
  \/ Len(prefs.skills) > 0
  \/ Len(prefs.preferredLocations) > 0
  \/ Len(prefs.preferredModes) > 0
  \/ prefs.experienceLevel # ""

\* App's hasPreferences memo
hasPreferences(prefs) ==
  \/ Len(trim(prefs.roleKeywords)) > 0
  \/ Len(trim(prefs.skills)) > 0
  \/ Len(prefs.preferredLocations) > 0
  \/ Len(prefs.preferredModes) > 0
  \/ prefs.experienceLevel # ""

----------------------------------------------------------------------------
(* window.localStorage and JSON.  A stored item is absent (getItem gives   *)
(* null), a text that is no JSON, or the JSON text of a value; a JSON      *)
(* value carries its type, as JSON.parse's result does at run time.        *)

JNull   == [t |-> "null", v |-> 0]
JNum(n) == [t |-> "num", v |-> n]
JStr(s) == [t |-> "str", v |-> s]
JArr(a) == [t |-> "arr", v |-> a]
JObj(o) == [t |-> "obj", v |-> o]

NoItem    == [kind |-> "absent", val |-> JNull]
BadText   == [kind |-> "text", val |-> JNull]
Stored(j) == [kind |-> "json", val |-> j]

\* if (!raw) return
isFalsyRaw(raw) == raw.kind = "absent"

\* JSON.parse(raw) raises a SyntaxError
parseThrows(raw) == raw.kind = "text"

\* JSON.parse(raw), when it returns
JSONparse(raw) == raw.val

\* parsed.<field>: undefined for a missing field and for a value with no fields
hasField(j, f) == j.t = "obj" /\ f \in DOMAIN j.v

\* Array.isArray(parsed.items), guarded by the truthiness of parsed
hasItemsArray(j) == hasField(j, "items") /\ j.v.items.t = "arr"

strArrayToJSON(a) == JArr([i \in 1..Len(a) |-> JStr(a[i])])
strArrayFromJSON(j) == [i \in 1..Len(j.v) |-> j.v[i].v]

\* JSON.stringify(preferences)
preferencesToJSON(p) ==
  JObj([ roleKeywords       |-> JStr(p.roleKeywords),
         preferredLocations |-> strArrayToJSON(p.preferredLocations),
         preferredModes     |-> strArrayToJSON(p.preferredModes),
         experienceLevel    |-> JStr(p.experienceLevel),
         skills             |-> JStr(p.skills),
         minMatchScore      |-> JNum(p.minMatchScore) ])

\* JSON.stringify({ items })
digestToJSON(items) ==
  JObj([ items |-> JArr([i \in 1..Len(items) |->
                          JObj([ jobId |-> JNum(items[i].jobId),
                                 score |-> JNum(items[i].score) ])]) ])

\* parsed.items as DigestItem[]
digestItemsFromJSON(j) ==
  [i \in 1..Len(j.v.items.v) |->
     [ jobId |-> j.v.items.v[i].v.jobId.v, score |-> j.v.items.v[i].v.score.v ]]

\* digestJobs destructures every item: a null item raises a TypeError in render
digestItemsThrow(j) == \E i \in 1..Len(j.v.items.v) : j.v.items.v[i].t = "null"

\* JSON.stringify(next) for the saved ids
savedToJSON(ids) == JArr([i \in 1..Len(ids) |-> JNum(ids[i])])
savedFromJSON(j) == [i \in 1..Len(j.v) |-> j.v[i].v]

\* mutant: records with the default status are left out of the stored map
statusesToJSONWithoutDefault(m) ==
  JObj([k \in {[numeric |-> TRUE, n |-> id] : id \in {j \in DOMAIN m : m[j].status # "Not Applied"}} |->
          JObj([ status    |-> JStr(m[k.n].status),
                 updatedAt |-> JStr(m[k.n].updatedAt) ])])

\* JSON.stringify(serializable): keys are the string-encoded job ids
statusesToJSON(m) ==
  JObj([k \in {[numeric |-> TRUE, n |-> id] : id \in DOMAIN m} |->
          JObj([ status    |-> JStr(m[k.n].status),
                 updatedAt |-> JStr(m[k.n].updatedAt) ])])

----------------------------------------------------------------------------
(* The mount effects' reads *)

\* saved-jobs effect: the state it sets, or prev when it sets nothing
loadSavedJobIds(prev, raw) ==
  IF isFalsyRaw(raw) \/ parseThrows(raw) THEN prev
  ELSE IF JSONparse(raw).t = "arr" THEN savedFromJSON(JSONparse(raw))
  ELSE prev

\* the setPreferences updater reads parsed.preferredLocations: a TypeError for
\* null, raised when React runs the updater, outside the effect's try block
preferencesUpdaterThrows(raw) ==
  ~isFalsyRaw(raw) /\ ~parseThrows(raw) /\ JSONparse(raw).t = "null"

\* mutant: a stored threshold of 0 counts as missing
mergePreferencesTruthyThreshold(prev, parsed) ==
  LET pj == preferencesToJSON(prev).v
      own(f) == IF hasField(parsed, f) THEN parsed.v[f] ELSE pj[f]
      orPrev(f) == IF hasField(parsed, f) /\ parsed.v[f].t # "null"
                   THEN parsed.v[f] ELSE pj[f]
  IN  [ roleKeywords       |-> own("roleKeywords"),
        experienceLevel    |-> own("experienceLevel"),
        skills             |-> own("skills"),
        preferredLocations |-> orPrev("preferredLocations"),
        preferredModes     |-> orPrev("preferredModes"),
        minMatchScore      |-> IF hasField(parsed, "minMatchScore")
                                  /\ parsed.v.minMatchScore.t = "num"
                                  /\ parsed.v.minMatchScore.v # 0
                               THEN parsed.v.minMatchScore ELSE pj.minMatchScore ]

\* { ...prev, ...parsed, preferredLocations: ..., preferredModes: ..., minMatchScore: ... }
\* with every field still carrying its run-time type
mergePreferences(prev, parsed) ==
  LET pj == preferencesToJSON(prev).v
      own(f) == IF hasField(parsed, f) THEN parsed.v[f] ELSE pj[f]
      orPrev(f) == IF hasField(parsed, f) /\ parsed.v[f].t # "null"
                   THEN parsed.v[f] ELSE pj[f]
  IN  [ roleKeywords       |-> own("roleKeywords"),
        experienceLevel    |-> own("experienceLevel"),
        skills             |-> own("skills"),
        preferredLocations |-> orPrev("preferredLocations"),
        preferredModes     |-> orPrev("preferredModes"),
        minMatchScore      |-> IF hasField(parsed, "minMatchScore")
                                  /\ parsed.v.minMatchScore.t = "num"
                               THEN parsed.v.minMatchScore ELSE pj.minMatchScore ]

\* the hasPreferences memo calls roleKeywords.trim(), then skills.trim() when
\* the first is blank: a TypeError in App's render when the field is no string
hasPreferencesThrows(mj) ==
  \/ mj.roleKeywords.t # "str"
  \/ (Len(trim(mj.roleKeywords.v)) = 0 /\ mj.skills.t # "str")

preferencesFromJSON(mj) ==
  [ roleKeywords       |-> mj.roleKeywords.v,
    preferredLocations |-> strArrayFromJSON(mj.preferredLocations),
    preferredModes     |-> strArrayFromJSON(mj.preferredModes),
    experienceLevel    |-> mj.experienceLevel.v,
    skills             |-> mj.skills.v,
    minMatchScore      |-> mj.minMatchScore.v ]

\* preferences effect: does the effect queue an update at all
preferencesLoadApplies(raw) == ~isFalsyRaw(raw) /\ ~parseThrows(raw)

\* status effect: Object.entries(null) raises inside the try block
statusLoadApplies(raw) ==
  ~isFalsyRaw(raw) /\ ~parseThrows(raw) /\ JSONparse(raw).t # "null"

\* the normalized map: numeric keys whose record has a truthy status
loadJobStatuses(raw) ==
  LET parsed == JSONparse(raw)
      keys == IF parsed.t = "obj"
              THEN {k \in DOMAIN parsed.v :
                      /\ k.numeric
                      /\ hasField(parsed.v[k], "status")
                      /\ parsed.v[k].v.status.t = "str"
                      /\ parsed.v[k].v.status.v # ""}
              ELSE {}
  IN  [id \in {k.n : k \in keys} |->
         LET rec == parsed.v[[numeric |-> TRUE, n |-> id]].v
         IN  [status |-> rec.status.v, updatedAt |-> rec.updatedAt.v]]

\* digest effect: raw is set, parses, and parsed.items is an array
digestEffectApplies(raw) ==
  ~isFalsyRaw(raw) /\ ~parseThrows(raw) /\ hasItemsArray(JSONparse(raw))

----------------------------------------------------------------------------
(* Digest generation *)

DigestSize == 10

NoDigest == [date |-> 0, items |-> <<>>]   \* digest = null

getTodayDigestKey == today

\* JOBS.map((job) => ({ job, score: computeMatchScore(job, preferences) }))
jobsWithScores(jobs, prefs) ==
  [i \in 1..Len(jobs) |-> [job |-> jobs[i], score |-> computeMatchScore(jobs[i], prefs)]]

\* mutant: scores above or equal to 0 pass the filter
RECURSIVE filterMatchingFromZero(_)
filterMatchingFromZero(scored) ==
  IF scored = <<>> THEN <<>>
  ELSE IF Head(scored).score >= 0
  THEN <<Head(scored)>> \o filterMatchingFromZero(Tail(scored))
  ELSE filterMatchingFromZero(Tail(scored))

\* jobsWithScores.filter(({ score }) => score > 0)
RECURSIVE filterMatching(_)
filterMatching(scored) ==
  IF scored = <<>> THEN <<>>
  ELSE IF Head(scored).score > 0 THEN <<Head(scored)>> \o filterMatching(Tail(scored))
  ELSE filterMatching(Tail(scored))

\* mutant: the comparator without its tie-break
digestCompareScoreOnly(a, b) == b.score - a.score

\* the comparator of matching.sort
digestCompare(a, b) ==
  IF b.score # a.score THEN b.score - a.score
  ELSE a.job.postedDaysAgo - b.job.postedDaysAgo

\* Array.prototype.sort with digestCompare; the sort is stable
sortMatching(m) ==
  LET n == Len(m)
      before(j, i) == \/ digestCompare(m[j], m[i]) < 0
                      \/ (digestCompare(m[j], m[i]) = 0 /\ j < i)
      rank(i) == Cardinality({j \in 1..n : before(j, i)}) + 1
  IN  [k \in 1..n |-> m[CHOOSE i \in 1..n : rank(i) = k]]

\* matching.slice(0, 10).map(({ job, score }) => ({ jobId: job.id, score }))
topItems(sorted) ==
  [i \in 1..Min(DigestSize, Len(sorted)) |->
     [jobId |-> sorted[i].job.id, score |-> sorted[i].score]]

computeDigestItems(jobs, prefs) ==
  topItems(sortMatching(filterMatching(jobsWithScores(jobs, prefs))))

\* mutant: the stored record is never consulted
existingDigestIgnored(raw) == FALSE

\* generateDigest: existing is set and parsed.items is an array (JSON.parse has returned)
existingDigestUsable(raw) ==
  ~isFalsyRaw(raw) /\ hasItemsArray(JSONparse(raw))

\* the path generateDigest takes
generatePath(prefs, raw, writable, jobs) ==
  IF ~hasPreferences(prefs) THEN "noop"
  ELSE IF ~isFalsyRaw(raw) /\ parseThrows(raw) THEN "parse-throw"
  ELSE IF existingDigestUsable(raw) THEN "cached"
  ELSE IF ~writable THEN "write-throw"
  ELSE IF Len(filterMatching(jobsWithScores(jobs, prefs))) = 0 THEN "empty"
  ELSE "fresh"

----------------------------------------------------------------------------
(* The dashboard view *)

isDigit(c) == c \in {"0", "1", "2", "3", "4", "5", "6", "7", "8", "9"}

DigitValue(c) ==
  CASE c = "0" -> 0 [] c = "1" -> 1 [] c = "2" -> 2 [] c = "3" -> 3 [] c = "4" -> 4
    [] c = "5" -> 5 [] c = "6" -> 6 [] c = "7" -> 7 [] c = "8" -> 8 [] c = "9" -> 9

\* salaryRange.match(/(\d+)/): the leftmost, longest run of digits, <<>> for no match
matchDigits(text) ==
  LET starts == {i \in 1..Len(text) : isDigit(text[i])} IN
  IF starts = {} THEN <<>>
  ELSE LET from == CHOOSE i \in starts : \A j \in starts : i <= j
           upto == CHOOSE k \in from..Len(text) :
                     /\ \A j \in from..k : isDigit(text[j])
                     /\ (k = Len(text) \/ ~isDigit(text[k + 1]))
       IN  SubSeq(text, from, upto)

\* Number.parseInt(digits, 10)
RECURSIVE parseInt(_)
parseInt(digits) ==
  IF digits = <<>> THEN 0
  ELSE 10 * parseInt(SubSeq(digits, 1, Len(digits) - 1)) + DigitValue(digits[Len(digits)])

\* mutant: the 'k' test comes before the 'lpa' test
extractSalaryValueKFirst(salaryRange) ==
  LET m == matchDigits(salaryRange)
      lower == toLowerCase(salaryRange)
  IN  IF m = <<>> THEN 0
      ELSE IF includes(lower, <<"k">>) THEN parseInt(m) * 1000
      ELSE IF includes(lower, <<"l", "p", "a">>) THEN parseInt(m) * 100000
      ELSE parseInt(m)

extractSalaryValue(salaryRange) ==
  LET m == matchDigits(salaryRange)
      lower == toLowerCase(salaryRange)
  IN  IF m = <<>> THEN 0
      ELSE IF includes(lower, <<"l", "p", "a">>) THEN parseInt(m) * 100000
      ELSE IF includes(lower, <<"k">>) THEN parseInt(m) * 1000
      ELSE parseInt(m)

\* useState<Filters>({ keyword: '', ..., sort: 'latest', status: '' })
initialFilters ==
  [ keyword |-> <<>>, location |-> "", mode |-> "", experience |-> "",
    source |-> "", sort |-> "latest", status |-> "" ]

\* mutant: a job without a record has no status at all
statusOrNone(statuses, id) ==
  IF id \in DOMAIN statuses THEN statuses[id].status ELSE ""

\* the status prop of a JobCard: jobStatuses[job.id]?.status ? ... : 'Not Applied'
cardStatus(statuses, id) ==
  IF id \in DOMAIN statuses /\ statuses[id].status # ""
  THEN statuses[id].status ELSE "Not Applied"

\* jobStatuses[job.id]?.status ?? 'Not Applied'
statusOrDefault(statuses, id) ==
  IF id \in DOMAIN statuses THEN statuses[id].status ELSE "Not Applied"

\* the comparator of result.sort
filterCompare(sort, a, b) ==
  IF sort = "matchScore" THEN b.score - a.score
  ELSE IF sort = "salary"
  THEN extractSalaryValue(b.job.salaryRange) - extractSalaryValue(a.job.salaryRange)
  ELSE a.job.postedDaysAgo - b.job.postedDaysAgo

\* mutant: a sort that puts equal elements in reverse order
sortResultTiesReversed(sort, m) ==
  LET n == Len(m)
      before(j, i) == \/ filterCompare(sort, m[j], m[i]) < 0
                      \/ (filterCompare(sort, m[j], m[i]) = 0 /\ j > i)
      rank(i) == Cardinality({j \in 1..n : before(j, i)}) + 1
  IN  [k \in 1..n |-> m[CHOOSE i \in 1..n : rank(i) = k]]

\* Array.prototype.sort with filterCompare; the sort is stable
sortResult(sort, m) ==
  LET n == Len(m)
      before(j, i) == \/ filterCompare(sort, m[j], m[i]) < 0
                      \/ (filterCompare(sort, m[j], m[i]) = 0 /\ j < i)
      rank(i) == Cardinality({j \in 1..n : before(j, i)}) + 1
  IN  [k \in 1..n |-> m[CHOOSE i \in 1..n : rank(i) = k]]

\* the keyword filter: q is the keyword in lower case, not trimmed
matchesKeyword(job, keyword) ==
  LET q == toLowerCase(keyword) IN
  includes(toLowerCase(job.title), q) \/ includes(toLowerCase(job.company), q)

\* Array.prototype.filter: the elements at the kept positions, in order
filterAt(arr, kept) ==
  [k \in 1..Cardinality(kept) |->
     arr[CHOOSE i \in kept : Cardinality({j \in kept : j <= i}) = k]]

\* the filter steps of the memo, each skipped while its filter is unset
filterKeyword(result, f) ==
  IF Len(trim(f.keyword)) > 0
  THEN filterAt(result, {i \in 1..Len(result) : matchesKeyword(result[i].job, f.keyword)})
  ELSE result

filterLocation(result, f) ==
  IF f.location # ""
  THEN filterAt(result, {i \in 1..Len(result) : result[i].job.location = f.location})
  ELSE result

\* mutant: the mode filter is skipped once a location is chosen
filterModeUnlessLocation(result, f) ==
  IF f.mode # "" /\ f.location = ""
  THEN filterAt(result, {i \in 1..Len(result) : result[i].job.mode = f.mode})
  ELSE result

filterMode(result, f) ==
  IF f.mode # ""
  THEN filterAt(result, {i \in 1..Len(result) : result[i].job.mode = f.mode})
  ELSE result

filterExperience(result, f) ==
  IF f.experience # ""
  THEN filterAt(result, {i \in 1..Len(result) : result[i].job.experience = f.experience})
  ELSE result

filterSource(result, f) ==
  IF f.source # ""
  THEN filterAt(result, {i \in 1..Len(result) : result[i].job.source = f.source})
  ELSE result

filterStatus(result, f, statuses) ==
  IF f.status # ""
  THEN filterAt(result, {i \in 1..Len(result) :
                           statusOrDefault(statuses, result[i].job.id) = f.status})
  ELSE result

\* mutant: a job must score above the threshold
filterThresholdStrict(result, prefs, onlyMatches) ==
  IF onlyMatches /\ hasPreferences(prefs)
  THEN filterAt(result, {i \in 1..Len(result) : result[i].score > prefs.minMatchScore})
  ELSE result

\* if (showOnlyMatches && hasPreferences)
filterThreshold(result, prefs, onlyMatches) ==
  IF onlyMatches /\ hasPreferences(prefs)
  THEN filterAt(result, {i \in 1..Len(result) : result[i].score >= prefs.minMatchScore})
  ELSE result

\* the body of the filteredJobs memo
computeFilteredJobs(jobs, prefs, f, onlyMatches, statuses) ==
  sortResult(f.sort,
    filterThreshold(
      filterStatus(
        filterSource(
          filterExperience(
            filterMode(
              filterLocation(
                filterKeyword(jobsWithScores(jobs, prefs), f), f), f), f), f),
        f, statuses),
      prefs, onlyMatches))

\* byId.get(jobId)
jobById(jobs, id) == jobs[CHOOSE j \in 1..Len(jobs) : jobs[j].id = id]

\* mutant: the entries in reverse snapshot order
digestJobsReversed(d, jobs) ==
  LET n == Len(d.items)
      known == {i \in 1..n : \E j \in 1..Len(jobs) : jobs[j].id = d.items[n + 1 - i].jobId}
  IN  filterAt([i \in 1..n |-> [job |-> d.items[n + 1 - i].jobId,
                                  score |-> d.items[n + 1 - i].score]], known)

\* the digestJobs memo: the snapshot's items whose job is in JOBS, each with
\* the job's id and the recorded score
digestJobs(d, jobs) ==
  LET known == {i \in 1..Len(d.items) : \E j \in 1..Len(jobs) : jobs[j].id = d.items[i].jobId}
  IN  filterAt([i \in 1..Len(d.items) |-> [job |-> d.items[i].jobId, score |-> d.items[i].score]],
               known)

\* buildDigestText: the date line and one numbered line per entry; the fixed
\* heading and closing lines are left out
buildDigestText(d, jobs) ==
  [ date  |-> d.date,
    lines |-> [i \in 1..Len(digestJobs(d, jobs)) |->
                 LET job == jobById(jobs, digestJobs(d, jobs)[i].job) IN
                 [ rank       |-> i,
                   title      |-> job.title,
                   company    |-> job.company,
                   location   |-> job.location,
                   experience |-> job.experience,
                   score      |-> digestJobs(d, jobs)[i].score ]] ]

----------------------------------------------------------------------------
(* State *)

NoToast == "none"   \* toastMessage = null

Op(name, path) == [name |-> name, path |-> path]

\* the empty status map {}
NoStatuses == [id \in {} |-> [status |-> "", updatedAt |-> 0]]

\* a browser whose storage holds nothing yet
EmptyStorage ==
  [ savedJobs   |-> NoItem,
    preferences |-> NoItem,
    status      |-> NoItem,
    digest      |-> [d \in Days |-> NoItem] ]

\* nothing has been copied or drafted yet
NoDraft == [kind |-> "none", date |-> 0, lines |-> <<>>]

\* useState initial values of App and of an unmounted DigestPage
\* a timer of the toast effect; history: whether a status change has been
\* made since it was started
NewTimer == [afterLatestChange |-> TRUE]

\* history: a status change has been made since these timers were started
Aged(timers) == [i \in 1..Len(timers) |-> [afterLatestChange |-> FALSE]]

\* the toast effect's cleanup: window.clearTimeout(timeoutId), which does
\* nothing when that timer has fired already
clearTimeout(timers, pending) ==
  IF pending /\ Len(timers) > 0 THEN SubSeq(timers, 1, Len(timers) - 1) ELSE timers

\* the timers left when timer i fires
WithoutTimer(timers, i) == SubSeq(timers, 1, i - 1) \o SubSeq(timers, i + 1, Len(timers))

\* the toast effect after setToastMessage(message): nothing when the message
\* is the one already shown (the dependency is unchanged); otherwise the
\* cleanup, then a new timer unless the message is null
toastEffect(message) ==
  IF message = toastMessage
  THEN /\ toastTimers' = Aged(toastTimers)
       /\ UNCHANGED effectTimerPending
  ELSE /\ toastTimers' =
            IF message = NoToast THEN Aged(clearTimeout(toastTimers, effectTimerPending))
            ELSE Append(Aged(clearTimeout(toastTimers, effectTimerPending)), NewTimer)
       /\ effectTimerPending' = (message # NoToast)

\* the tree is unmounted when an error escapes: every effect's cleanup runs
ToastKept ==
  IF crashed'
  THEN /\ toastTimers' = clearTimeout(toastTimers, effectTimerPending)
       /\ effectTimerPending' = FALSE
  ELSE UNCHANGED toastVars

InitMemory ==
  /\ savedJobIds = <<>>
  /\ preferences = defaultPreferences
  /\ jobStatuses = NoStatuses
  /\ toastMessage = NoToast
  /\ digestKey = 0
  /\ digest = NoDigest
  /\ isGenerating = FALSE
  /\ noMatchesToday = FALSE
  /\ filters = initialFilters
  /\ showOnlyMatches = FALSE
  /\ filteredJobs = <<>>
  /\ draft = NoDraft
  /\ toastTimers = <<>>
  /\ effectTimerPending = FALSE

\* DigestPage mounts: useState(getTodayDigestKey), then the digest effect
MountDigestPage(store) ==
  LET raw == store.digest[getTodayDigestKey] IN
  /\ digestKey' = getTodayDigestKey
  /\ isGenerating' = FALSE
  /\ IF digestEffectApplies(raw) /\ ~digestItemsThrow(JSONparse(raw))
     THEN /\ digest' = [date |-> getTodayDigestKey,
                        items |-> digestItemsFromJSON(JSONparse(raw))]
          /\ noMatchesToday' = (Len(JSONparse(raw).v.items.v) = 0)
     ELSE /\ digest' = NoDigest
          /\ noMatchesToday' = FALSE

\* the digestJobs memo raises while DigestPage renders the loaded record
mountDigestThrows(store) ==
  LET raw == store.digest[getTodayDigestKey] IN
  digestEffectApplies(raw) /\ digestItemsThrow(JSONparse(raw))

\* JobsDashboard mounts: useState initial values, then the memo's first value
MountDashboard(prefs, statuses) ==
  /\ filters' = initialFilters
  /\ showOnlyMatches' = FALSE
  /\ filteredJobs' = computeFilteredJobs(catalog, prefs, initialFilters, FALSE, statuses)

UnmountDashboard ==
  /\ filters' = initialFilters
  /\ showOnlyMatches' = FALSE
  /\ filteredJobs' = <<>>

\* the job's card is on the page
cardShown(id) ==
  \/ route = "dashboard" /\ \E i \in 1..Len(filteredJobs) : filteredJobs[i].job.id = id
  \/ route = "saved" /\ arrayIncludes(savedJobIds, id)

UnmountDigestPage ==
  /\ digestKey' = 0
  /\ digest' = NoDigest
  /\ isGenerating' = FALSE
  /\ noMatchesToday' = FALSE

----------------------------------------------------------------------------
(* Actions *)

\* App mounts: the mount effects in order (saved ids, preferences load,
\* preferences persist, status load), the re-render they cause with its
\* persist effect, and the mount of the routed page
\* twice: the mount effects are run a second time before the first re-render,
\* as React.StrictMode does in a development build. The second preferences
\* load reads what the first persist effect wrote, the defaults, and queues a
\* second updater behind the first; the other loads read what they read before.
AppMount(twice) ==
  /\ ~started /\ ~crashed
  /\ LET rawPrefs == localStorage.preferences
         once == IF preferencesLoadApplies(rawPrefs) /\ ~preferencesUpdaterThrows(rawPrefs)
                 THEN mergePreferences(defaultPreferences, JSONparse(rawPrefs))
                 ELSE preferencesToJSON(defaultPreferences).v
         merged == IF twice /\ storageWritable /\ ~preferencesUpdaterThrows(rawPrefs)
                   THEN mergePreferences(preferencesFromJSON(once),
                                         preferencesToJSON(defaultPreferences))
                   ELSE once
         crash == \/ ~storageWritable
                  \/ preferencesUpdaterThrows(rawPrefs)
                  \/ hasPreferencesThrows(merged)
                  \/ (route = "digest" /\ mountDigestThrows(localStorage))
         \* the first persist effect writes the defaults; the persist effect of
         \* the re-render runs only if that render commits
         persisted == IF crash THEN defaultPreferences ELSE preferencesFromJSON(merged)
     IN  /\ started' = TRUE
         /\ bootStorage' = localStorage
         /\ crashed' = crash
         /\ localStorage' =
              IF storageWritable
              THEN [localStorage EXCEPT !.preferences = Stored(preferencesToJSON(persisted))]
              ELSE localStorage
         /\ IF crash
            THEN UNCHANGED <<savedJobIds, preferences, jobStatuses, digestKey, digest,
                             isGenerating, noMatchesToday, dashboardVars>>
            ELSE /\ savedJobIds' = loadSavedJobIds(savedJobIds, localStorage.savedJobs)
                 /\ preferences' = preferencesFromJSON(merged)
                 /\ jobStatuses' = IF statusLoadApplies(localStorage.status)
                                   THEN loadJobStatuses(localStorage.status)
                                   ELSE jobStatuses
                 /\ IF route = "digest"
                    THEN MountDigestPage(localStorage)
                    ELSE UNCHANGED <<digestKey, digest, isGenerating, noMatchesToday>>
                 \* the load effects' updates are rendered before any filter is set
                 /\ IF route = "dashboard"
                    THEN MountDashboard(preferences', jobStatuses')
                    ELSE UNCHANGED dashboardVars
         /\ lastOp' = Op("start", IF crash THEN "crash" ELSE "ok")
  /\ UNCHANGED draft
  /\ UNCHANGED <<catalog, today, route, storageWritable, toastMessage>>
  /\ ToastKept

AppStart == AppMount(FALSE)

AppStartStrict == AppMount(TRUE)

\* a NavLink is followed: the old page unmounts, the new one mounts
Navigate(r) ==
  /\ started /\ ~crashed
  /\ r # route
  /\ route' = r
  /\ IF r = "digest"
     THEN IF mountDigestThrows(localStorage)
          THEN crashed' = TRUE /\ UnmountDigestPage
          ELSE crashed' = FALSE /\ MountDigestPage(localStorage)
     ELSE crashed' = FALSE /\ UnmountDigestPage
  /\ IF r = "dashboard"
     THEN MountDashboard(preferences, jobStatuses)
     ELSE UnmountDashboard
  /\ lastOp' = Op("navigate", IF crashed' THEN "crash" ELSE "ok")
  /\ UNCHANGED draft
  /\ UNCHANGED <<catalog, today, started, storageWritable, localStorage, bootStorage,
                 savedJobIds, preferences, jobStatuses, toastMessage>>
  /\ ToastKept

\* the local date changes at midnight
AdvanceDay ==
  /\ ~crashed
  /\ today < MaxDay
  /\ today' = today + 1
  /\ lastOp' = Op("midnight", "ok")
  /\ UNCHANGED dashboardVars
  /\ UNCHANGED draft
  /\ UNCHANGED <<catalog, route, started, crashed, storageWritable, localStorage,
                 bootStorage, savedJobIds, preferences, jobStatuses, toastMessage,
                 digestKey, digest, isGenerating, noMatchesToday>>
  /\ ToastKept

\* generateDigest is called on the mounted DigestPage
GenerateDigest ==
  /\ started /\ ~crashed
  /\ route = "digest"
  /\ LET raw == localStorage.digest[digestKey]
         path == generatePath(preferences, raw, storageWritable, catalog)
         items == computeDigestItems(catalog, preferences)
         renderThrows == path = "cached" /\ digestItemsThrow(JSONparse(raw))
     IN  /\ lastOp' = Op("generate", path)
         /\ crashed' = renderThrows
         /\ isGenerating' = IF path = "noop" THEN isGenerating ELSE FALSE
         /\ CASE renderThrows ->
                   UNCHANGED <<localStorage, digest, noMatchesToday>>
              [] path = "cached" /\ ~renderThrows ->
                   /\ digest' = [date |-> digestKey,
                                 items |-> digestItemsFromJSON(JSONparse(raw))]
                   /\ noMatchesToday' = (Len(JSONparse(raw).v.items.v) = 0)
                   /\ UNCHANGED localStorage
              [] path \in {"empty", "fresh"} ->
                   /\ localStorage' =
                        [localStorage EXCEPT !.digest[digestKey] = Stored(digestToJSON(items))]
                   /\ digest' = [date |-> digestKey, items |-> items]
                   /\ noMatchesToday' = (path = "empty")
              [] OTHER ->
                   UNCHANGED <<localStorage, digest, noMatchesToday>>
  /\ UNCHANGED dashboardVars
  /\ UNCHANGED draft
  /\ UNCHANGED <<catalog, today, route, started, storageWritable, bootStorage,
                 savedJobIds, preferences, jobStatuses, toastMessage, digestKey>>
  /\ ToastKept

\* SettingsPage's onChange(next): setPreferences, then the persist effect
SetPreferences(next) ==
  /\ started /\ ~crashed
  /\ route = "settings"
  /\ preferences' = next
  /\ crashed' = ~storageWritable
  /\ localStorage' =
       IF storageWritable
       THEN [localStorage EXCEPT !.preferences = Stored(preferencesToJSON(next))]
       ELSE localStorage
  /\ lastOp' = Op("edit", IF storageWritable THEN "ok" ELSE "write-throw")
  /\ UNCHANGED dashboardVars
  /\ UNCHANGED draft
  /\ UNCHANGED <<catalog, today, route, started, storageWritable, bootStorage,
                 savedJobIds, jobStatuses, toastMessage, digestKey, digest,
                 isGenerating, noMatchesToday>>
  /\ ToastKept

EditRoleKeywords(v) ==
  SetPreferences([preferences EXCEPT !.roleKeywords = v])

EditSkills(v) ==
  SetPreferences([preferences EXCEPT !.skills = v])

EditExperienceLevel(v) ==
  SetPreferences([preferences EXCEPT !.experienceLevel = v])

EditMinMatchScore(n) ==
  SetPreferences([preferences EXCEPT !.minMatchScore = n])

\* handleLocationsChange: the selected options replace the list
ChangeLocations(selected) ==
  SetPreferences([preferences EXCEPT !.preferredLocations = selected])

\* preferredModes.filter((m) => m !== mode)
RECURSIVE without(_, _)
without(arr, x) ==
  IF arr = <<>> THEN <<>>
  ELSE IF Head(arr) = x THEN without(Tail(arr), x)
  ELSE <<Head(arr)>> \o without(Tail(arr), x)

toggleMode(mode) ==
  SetPreferences([preferences EXCEPT !.preferredModes =
       IF arrayIncludes(preferences.preferredModes, mode)
       THEN without(preferences.preferredModes, mode)
       ELSE Append(preferences.preferredModes, mode)])

\* handleSaveJob: the updater appends the id and writes the list
handleSaveJob(id) ==
  /\ started /\ ~crashed
  /\ route = "dashboard" /\ cardShown(id)
  /\ IF arrayIncludes(savedJobIds, id)
     THEN /\ lastOp' = Op("save", "noop")
          /\ UNCHANGED <<savedJobIds, localStorage, crashed>>
     ELSE IF storageWritable
     THEN /\ savedJobIds' = Append(savedJobIds, id)
          /\ localStorage' =
               [localStorage EXCEPT !.savedJobs = Stored(savedToJSON(savedJobIds'))]
          /\ lastOp' = Op("save", "ok")
          /\ UNCHANGED crashed
     ELSE /\ crashed' = TRUE
          /\ lastOp' = Op("save", "write-throw")
          /\ UNCHANGED <<savedJobIds, localStorage>>
  /\ UNCHANGED dashboardVars
  /\ UNCHANGED draft
  /\ UNCHANGED <<catalog, today, route, started, storageWritable, bootStorage,
                 preferences, jobStatuses, toastMessage, digestKey, digest,
                 isGenerating, noMatchesToday>>
  /\ ToastKept

\* mutant: a change to 'Not Applied' removes the job's record
withStatusDefaultRemoved(prev, jobId, status, now) ==
  [id \in (IF status = "Not Applied" THEN DOMAIN prev \ {jobId} ELSE DOMAIN prev \cup {jobId}) |->
     IF id = jobId THEN [status |-> status, updatedAt |-> now] ELSE prev[id]]

\* { ...prev, [jobId]: { status, updatedAt } }
withStatus(prev, jobId, status, now) ==
  [id \in DOMAIN prev \cup {jobId} |->
     IF id = jobId THEN [status |-> status, updatedAt |-> now] ELSE prev[id]]

\* handleChangeStatus: the updater writes the whole map, then the toast is set
handleChangeStatus(jobId, status) ==
  /\ started /\ ~crashed
  /\ route \in {"dashboard", "saved"}
  /\ cardShown(jobId)
  /\ IF storageWritable
     THEN /\ jobStatuses' = withStatus(jobStatuses, jobId, status, today)
          /\ localStorage' =
               [localStorage EXCEPT !.status = Stored(statusesToJSON(jobStatuses'))]
          /\ toastMessage' = status
          /\ toastEffect(status)
          /\ lastOp' = Op("status", "ok")
          /\ UNCHANGED crashed
     ELSE /\ crashed' = TRUE
          /\ ToastKept
          /\ lastOp' = Op("status", "write-throw")
          /\ UNCHANGED <<jobStatuses, localStorage, toastMessage>>
  /\ UNCHANGED dashboardVars
  /\ UNCHANGED draft
  /\ UNCHANGED <<catalog, today, route, started, storageWritable, bootStorage,
                 savedJobIds, preferences, digestKey, digest, isGenerating,
                 noMatchesToday>>

\* the browser's storage starts or stops refusing writes (quota, private mode)
StorageFails ==
  /\ ~crashed /\ storageWritable
  /\ storageWritable' = FALSE
  /\ lastOp' = Op("storage", "fails")
  /\ UNCHANGED dashboardVars
  /\ UNCHANGED draft
  /\ UNCHANGED <<catalog, today, route, started, crashed, localStorage, bootStorage,
                 savedJobIds, preferences, jobStatuses, toastMessage, digestKey,
                 digest, isGenerating, noMatchesToday>>
  /\ ToastKept

StorageRecovers ==
  /\ ~crashed /\ ~storageWritable
  /\ storageWritable' = TRUE
  /\ lastOp' = Op("storage", "recovers")
  /\ UNCHANGED dashboardVars
  /\ UNCHANGED draft
  /\ UNCHANGED <<catalog, today, route, started, crashed, localStorage, bootStorage,
                 savedJobIds, preferences, jobStatuses, toastMessage, digestKey,
                 digest, isGenerating, noMatchesToday>>
  /\ ToastKept


\* FilterBar's update(partial): setFilters({ ...filters, ...partial }); the
\* memo is recomputed because filters is a new object
SetFilters(next) ==
  /\ started /\ ~crashed
  /\ route = "dashboard"
  /\ filters' = next
  /\ filteredJobs' = computeFilteredJobs(catalog, preferences, next, showOnlyMatches, jobStatuses)
  /\ lastOp' = Op("filter", "ok")
  /\ UNCHANGED draft
  /\ UNCHANGED <<catalog, today, route, started, crashed, storageWritable, localStorage,
                 bootStorage, savedJobIds, preferences, jobStatuses, toastMessage,
                 digestKey, digest, isGenerating, noMatchesToday, showOnlyMatches>>
  /\ ToastKept

UpdateKeyword(v)    == SetFilters([filters EXCEPT !.keyword = v])
UpdateLocation(v)   == SetFilters([filters EXCEPT !.location = v])
UpdateMode(v)       == SetFilters([filters EXCEPT !.mode = v])
UpdateExperience(v) == SetFilters([filters EXCEPT !.experience = v])
UpdateSource(v)     == SetFilters([filters EXCEPT !.source = v])
UpdateSort(v)       == SetFilters([filters EXCEPT !.sort = v])
\* FilterBar renders no control for filters.status: in the application as
\* built it stays ''. UpdateStatus is setFilters called with the field set,
\* what a control wired to update({ status }) like the other six would do.
UpdateStatus(v)     == SetFilters([filters EXCEPT !.status = v])

\* the threshold checkbox, disabled while hasPreferences is false; the memo
\* is recomputed only when the checked state changes
SetShowOnlyMatches(checked) ==
  /\ started /\ ~crashed
  /\ route = "dashboard"
  /\ hasPreferences(preferences)
  /\ showOnlyMatches' = checked
  /\ filteredJobs' = IF checked = showOnlyMatches THEN filteredJobs
                     ELSE computeFilteredJobs(catalog, preferences, filters, checked, jobStatuses)
  /\ lastOp' = Op("toggle", "ok")
  /\ UNCHANGED draft
  /\ UNCHANGED <<catalog, today, route, started, crashed, storageWritable, localStorage,
                 bootStorage, savedJobIds, preferences, jobStatuses, toastMessage,
                 digestKey, digest, isGenerating, noMatchesToday, filters>>
  /\ ToastKept

\* the browser reloads the page: App is constructed again over the same storage

\* handleCopy: the text goes to the clipboard, unless the clipboard is
\* unavailable or refuses, which the handler ignores
handleCopy ==
  /\ started /\ ~crashed
  /\ route = "digest"
  /\ IF digest = NoDigest \/ Len(digestJobs(digest, catalog)) = 0
     THEN /\ lastOp' = Op("copy", "noop")
          /\ UNCHANGED draft
     ELSE \E written \in BOOLEAN :
            IF written
            THEN /\ draft' = [ kind  |-> "copy",
                               date  |-> buildDigestText(digest, catalog).date,
                               lines |-> buildDigestText(digest, catalog).lines ]
                 /\ lastOp' = Op("copy", "ok")
            ELSE /\ lastOp' = Op("copy", "clipboard-refused")
                 /\ UNCHANGED draft
  /\ UNCHANGED dashboardVars
  /\ UNCHANGED <<catalog, today, route, started, crashed, storageWritable, localStorage,
                 bootStorage, savedJobIds, preferences, jobStatuses, toastMessage,
                 digestKey, digest, isGenerating, noMatchesToday>>
  /\ ToastKept

\* handleEmailDraft: the text becomes the body of a mailto: link
handleEmailDraft ==
  /\ started /\ ~crashed
  /\ route = "digest"
  /\ IF digest = NoDigest \/ Len(digestJobs(digest, catalog)) = 0
     THEN /\ lastOp' = Op("email", "noop")
          /\ UNCHANGED draft
     ELSE /\ draft' = [ kind  |-> "email",
                        date  |-> buildDigestText(digest, catalog).date,
                        lines |-> buildDigestText(digest, catalog).lines ]
          /\ lastOp' = Op("email", "ok")
  /\ UNCHANGED dashboardVars
  /\ UNCHANGED <<catalog, today, route, started, crashed, storageWritable, localStorage,
                 bootStorage, savedJobIds, preferences, jobStatuses, toastMessage,
                 digestKey, digest, isGenerating, noMatchesToday>>
  /\ ToastKept

\* a timer of the toast effect fires: setToastMessage(null), then the
\* effect's cleanup and its early return
ToastTimeout(i) ==
  /\ started /\ ~crashed
  /\ i \in 1..Len(toastTimers)
  /\ toastMessage' = NoToast
  /\ IF toastMessage = NoToast
     THEN /\ toastTimers' = WithoutTimer(toastTimers, i)
          /\ effectTimerPending' = (effectTimerPending /\ i # Len(toastTimers))
     ELSE /\ toastTimers' =
               clearTimeout(WithoutTimer(toastTimers, i),
                            effectTimerPending /\ i # Len(toastTimers))
          /\ effectTimerPending' = FALSE
  /\ lastOp' = Op("toast-timeout", "ok")
  /\ UNCHANGED dashboardVars
  /\ UNCHANGED draft
  /\ UNCHANGED <<catalog, today, route, started, crashed, storageWritable, localStorage,
                 bootStorage, savedJobIds, preferences, jobStatuses, digestKey, digest,
                 isGenerating, noMatchesToday>>

Reload ==
  /\ started
  /\ started' = FALSE
  /\ crashed' = FALSE
  /\ savedJobIds' = <<>>
  /\ preferences' = defaultPreferences
  /\ jobStatuses' = NoStatuses
  /\ toastMessage' = NoToast
  /\ UnmountDigestPage
  /\ UnmountDashboard
  /\ toastTimers' = <<>>
  /\ effectTimerPending' = FALSE
  /\ lastOp' = Op("reload", "ok")
  /\ UNCHANGED draft
  /\ UNCHANGED <<catalog, today, route, storageWritable, localStorage, bootStorage>>
----------------------------------------------------------------------------
(* Inputs *)

TxtBlank     == <<" ">>
TxtComma     == <<",">>
TxtKwReact   == <<"r", "e", "a", "c", "t">>
TxtKwJavaSql == <<" ", "J", "a", "v", "a", ",", "s", "q", "l">>
TxtSkCss     == <<"c", "s", "s", ",", " ">>

KeywordTexts == {<<>>, TxtBlank, TxtKwReact, TxtKwJavaSql}
SkillTexts   == {<<>>, TxtComma, TxtSQL, TxtSkCss}
LocationSelections == {<<>>, <<"Pune">>, <<"Delhi", "Pune">>}
ToggledModes == {"Remote", "Onsite"}
ExperienceLevels == {"", "Fresher", "1-3"}
Thresholds == {0, 40, 100}

\* what an earlier session of the same day leaves behind: its preferences and
\* the digest it generated from them
EarlierPreferences == [defaultPreferences EXCEPT !.roleKeywords = TxtKwReact]

UsedStorage(jobs) ==
  [ savedJobs   |-> NoItem,
    preferences |-> Stored(preferencesToJSON(EarlierPreferences)),
    status      |-> NoItem,
    digest      |-> [d \in Days |->
                       IF d = 1
                       THEN Stored(digestToJSON(computeDigestItems(jobs, EarlierPreferences)))
                       ELSE NoItem] ]

----------------------------------------------------------------------------
(* The digest over a session: preference edits, navigation between the     *)
(* settings and the digest page, generation, and midnight.                 *)

Init ==
  /\ catalog \in Catalogs
  /\ today = 1
  /\ route \in {"settings", "digest"}
  /\ started = FALSE
  /\ crashed = FALSE
  /\ storageWritable = TRUE
  /\ localStorage \in {EmptyStorage, UsedStorage(catalog)}
  /\ bootStorage = localStorage
  /\ InitMemory
  /\ lastOp = Op("none", "ok")

Next ==
  \/ AppStart
  \/ \E r \in {"settings", "digest"} : Navigate(r)
  \/ AdvanceDay
  \/ GenerateDigest
  \/ \E v \in {<<>>, TxtBlank, TxtKwReact} : EditRoleKeywords(v)
  \/ \E v \in {<<>>, TxtComma} : EditSkills(v)
  \/ toggleMode("Remote")
  \/ \E n \in {0, 40} : EditMinMatchScore(n)

Spec == Init /\ [][Next]_vars

----------------------------------------------------------------------------
(* Properties of the digest *)

\* a snapshot is stored for date d: a record with an items list
HasSnapshot(store, d) ==
  /\ store.digest[d].kind = "json"
  /\ store.digest[d].val.t = "obj"
  /\ "items" \in DOMAIN store.digest[d].val.v
  /\ store.digest[d].val.v.items.t = "arr"

SnapshotItems(store, d) == digestItemsFromJSON(store.digest[d].val)

\* the preferences are empty: blank texts, no locations, no modes, no level
Blank(text) == \A i \in 1..Len(text) : text[i] = " "

EmptyPreferences(p) ==
  /\ Blank(p.roleKeywords)
  /\ Blank(p.skills)
  /\ p.preferredLocations = <<>>
  /\ p.preferredModes = <<>>
  /\ p.experienceLevel = ""

GenerateStep == lastOp'.name = "generate"

QualifyingJobs(jobs, p) == {i \in 1..Len(jobs) : computeMatchScore(jobs[i], p) > 0}

\* C1: once a snapshot is stored for a date, no step changes the stored
\* snapshot of that date, and every generate request made on that date exposes
\* exactly its items, whatever the preferences have become.
C1_SnapshotImmutable ==
  [][\A d \in Days :
       HasSnapshot(localStorage, d) =>
         /\ localStorage'.digest[d] = localStorage.digest[d]
         /\ (GenerateStep /\ today = d) =>
              /\ digest'.date = d
              /\ digest'.items = SnapshotItems(localStorage, d)]_vars

\* C1 witness: a generate request served from today's stored snapshot after
\* the preferences changed, so that a fresh computation would differ.
C1_Witness ==
  /\ lastOp = Op("generate", "cached")
  /\ digest.date = today
  /\ hasPreferences(preferences)
  /\ digest.items # computeDigestItems(catalog, preferences)

\* items is the first DigestSize of the jobs scoring above 0, by descending
\* score and then ascending days-since-posted, each with its score under p
IsTopRanking(items, jobs, p) ==
  LET Q == QualifyingJobs(jobs, p)
      idx(k) == CHOOSE i \in 1..Len(jobs) : jobs[i].id = items[k].jobId
      score(i) == computeMatchScore(jobs[i], p)
      days(i) == jobs[i].postedDaysAgo
      ahead(i, j) == score(i) > score(j) \/ (score(i) = score(j) /\ days(i) < days(j))
  IN  /\ Len(items) = Min(10, Cardinality(Q))
      /\ \A k \in 1..Len(items) :
           /\ \E i \in Q : jobs[i].id = items[k].jobId
           /\ items[k].score = score(idx(k))
           /\ items[k].score > 0
      /\ \A k, l \in 1..Len(items) : k < l =>
           /\ items[k].jobId # items[l].jobId
           /\ ~ahead(idx(l), idx(k))
      /\ \A i \in Q :
           (\A k \in 1..Len(items) : items[k].jobId # jobs[i].id) =>
             \A k \in 1..Len(items) : ~ahead(i, idx(k))

\* C2: a generate request with non-empty preferences, nothing stored under
\* the page's digest key and at least one job scoring above 0 persists and
\* exposes the top ranking: at most 10 entries, none scoring 0, each with the
\* job's score under the preferences of that moment.
C2_FreshDigestIsTopRanking ==
  [][(/\ GenerateStep
      /\ ~EmptyPreferences(preferences)
      /\ localStorage.digest[digestKey].kind = "absent"
      /\ QualifyingJobs(catalog, preferences) # {})
     => /\ IsTopRanking(digest'.items, catalog, preferences)
        /\ digest'.date = digestKey
        /\ ~noMatchesToday'
        /\ HasSnapshot(localStorage', digestKey)
        /\ SnapshotItems(localStorage', digestKey) = digest'.items]_vars

\* C2 witness: a fresh digest of 10 entries cut from more than 10 qualifying
\* jobs, with two entries tied on score.
C2_Witness ==
  /\ lastOp = Op("generate", "fresh")
  /\ Len(digest.items) = 10
  /\ Cardinality(QualifyingJobs(catalog, preferences)) > 10
  /\ \E k \in 1..9 : digest.items[k].score = digest.items[k + 1].score

\* the Empty state: an exposed snapshot without items and the no-matches flag
DigestEmpty == digest # NoDigest /\ digest.items = <<>> /\ noMatchesToday

\* the Uninitialized state: no snapshot exposed, the flag unset
DigestUninitialized == digest = NoDigest /\ ~noMatchesToday

\* C3: a generate request with non-empty preferences, nothing stored under the
\* page's digest key and every job scoring 0 persists {items: []} under that key
\* and enters Empty, which differs from Uninitialized; a later generate on the
\* same date stays Empty.
C3_EmptyDigest ==
  [][/\ (/\ GenerateStep
         /\ ~EmptyPreferences(preferences)
         /\ localStorage.digest[digestKey].kind = "absent"
         /\ QualifyingJobs(catalog, preferences) = {})
        => /\ localStorage'.digest[digestKey] = Stored(JObj([items |-> JArr(<<>>)]))
           /\ DigestEmpty'
           /\ ~DigestUninitialized'
     /\ (GenerateStep /\ DigestEmpty /\ digest.date = today)
        => /\ DigestEmpty'
           /\ digest' = digest
           /\ localStorage' = localStorage]_vars

\* C3 witness: a second generate request on the date of an Empty digest.
C3_Witness ==
  /\ lastOp = Op("generate", "cached")
  /\ DigestEmpty
  /\ digest.date = today
  /\ localStorage.digest[today] = Stored(JObj([items |-> JArr(<<>>)]))

\* C4: a generate request made while the preferences are empty changes neither
\* the storage nor the exposed digest, the Empty flag or the generating flag.
C4_GenerateNoOpWithoutPreferences ==
  [][(GenerateStep /\ EmptyPreferences(preferences))
     => UNCHANGED <<localStorage, digest, noMatchesToday, isGenerating>>]_vars

\* C4 witness: requests with blank (not empty) role keywords, one with a
\* snapshot stored for today and a threshold off its default.
C4_Witness ==
  /\ lastOp = Op("generate", "noop")
  /\ preferences.roleKeywords = TxtBlank
  /\ preferences.minMatchScore # 40
  /\ HasSnapshot(localStorage, today)

\* C5: a generate request on a date later than one with a stored snapshot
\* touches only the key of the current date, exposes a digest of the current
\* date, and computes it from the current preferences when none is stored.
C5_LaterDayIndependent ==
  [][(/\ GenerateStep
      /\ ~EmptyPreferences(preferences)
      /\ \E d \in Days : d < today /\ HasSnapshot(localStorage, d))
     => /\ \A d \in Days : d # today => localStorage'.digest[d] = localStorage.digest[d]
        /\ digest'.date = today
        /\ localStorage.digest[today].kind = "absent"
             => digest'.items = computeDigestItems(catalog, preferences)]_vars

----------------------------------------------------------------------------
(* The match score over every preferences value the settings inputs reach  *)

InitScore ==
  /\ catalog \in Catalogs
  /\ today = 1
  /\ route = "settings"
  /\ started = FALSE
  /\ crashed = FALSE
  /\ storageWritable = TRUE
  /\ localStorage = EmptyStorage
  /\ bootStorage = localStorage
  /\ InitMemory
  /\ lastOp = Op("none", "ok")

NextScore ==
  \/ AppStart
  \/ \E v \in KeywordTexts : EditRoleKeywords(v)
  \/ \E v \in SkillTexts : EditSkills(v)
  \/ \E v \in ExperienceLevels : EditExperienceLevel(v)
  \/ \E n \in Thresholds : EditMinMatchScore(n)
  \/ \E sel \in LocationSelections : ChangeLocations(sel)
  \/ \E mode \in ToggledModes : toggleMode(mode)

SpecScore == InitScore /\ [][NextScore]_vars

\* the keywords of a comma-separated text: its maximal comma-free segments,
\* trimmed and lower-cased, the empty ones left out
Tokens(text) ==
  LET n == Len(text)
      segment(a, b) ==
        /\ \A k \in a..b : text[k] # ","
        /\ (a = 1 \/ text[a - 1] = ",")
        /\ (b = n \/ text[b + 1] = ",")
  IN  {toLowerCase(trim(SubSeq(text, a, b))) :
         <<a, b>> \in {ab \in (1..n) \X (1..n) : ab[1] <= ab[2] /\ segment(ab[1], ab[2])}}
      \ {<<>>}

IsSubstring(needle, hay) ==
  \E a \in 0..Len(hay) : \E b \in a..Len(hay) : SubSeq(hay, a + 1, b) = needle

Elements(arr) == {arr[i] : i \in 1..Len(arr)}

\* the preference criteria a job satisfies, given the keyword and skill tokens
SatisfiedWith(job, p, keywords, skills) ==
  {c \in {"title", "description", "location", "mode", "experience", "skills"} :
     \/ c = "title" /\ \E kw \in keywords : IsSubstring(kw, toLowerCase(job.title))
     \/ c = "description"
          /\ \E kw \in keywords : IsSubstring(kw, toLowerCase(job.description))
     \/ c = "location" /\ job.location \in Elements(p.preferredLocations)
     \/ c = "mode" /\ job.mode \in Elements(p.preferredModes)
     \/ c = "experience" /\ p.experienceLevel # "" /\ p.experienceLevel = job.experience
     \/ c = "skills" /\ \E sk \in Elements(job.skills) : toLowerCase(sk) \in skills}

Satisfied(job, p) == SatisfiedWith(job, p, Tokens(p.roleKeywords), Tokens(p.skills))

Points(c) ==
  CASE c = "title" -> 25
    [] c = "description" -> 15
    [] c = "location" -> 15
    [] c = "mode" -> 10
    [] c = "experience" -> 10
    [] c = "skills" -> 15

RECURSIVE SumPoints(_)
SumPoints(cs) ==
  IF cs = {} THEN 0
  ELSE LET c == CHOOSE x \in cs : TRUE IN Points(c) + SumPoints(cs \ {c})

ContributionSum(job, satisfied) ==
  SumPoints(satisfied)
    + (IF job.postedDaysAgo <= 2 THEN 5 ELSE 0)
    + (IF job.source = "LinkedIn" THEN 5 ELSE 0)

CatalogJobs == {catalog[i] : i \in 1..Len(catalog)}

\* C6: for every job and every preferences value the score is the sum of the
\* contributions that apply, capped at 100, and lies in 0..100.
C6_ScoreIsCappedSum ==
  LET keywords == Tokens(preferences.roleKeywords)
      skills == Tokens(preferences.skills)
  IN  \A job \in CatalogJobs :
        LET sum == ContributionSum(job, SatisfiedWith(job, preferences, keywords, skills))
        IN  /\ computeMatchScore(job, preferences) = Min(sum, 100)
            /\ computeMatchScore(job, preferences) \in 0..100

\* C6 witness: one job satisfies every criterion and scores 100, another
\* matches the keywords in its description only, a third scores 0.
C6_Witness ==
  /\ \E job \in CatalogJobs : computeMatchScore(job, preferences) = 100
  /\ \E job \in CatalogJobs :
       /\ "description" \in Satisfied(job, preferences)
       /\ "title" \notin Satisfied(job, preferences)
  /\ \E job \in CatalogJobs : computeMatchScore(job, preferences) < 30

\* C7: when an edit of the preferences leaves every criterion a job satisfied
\* satisfied (one or more may be added), the job's score does not decrease.
C7_ScoreMonotonic ==
  [][LET kw1 == Tokens(preferences.roleKeywords)
         sk1 == Tokens(preferences.skills)
         kw2 == Tokens(preferences'.roleKeywords)
         sk2 == Tokens(preferences'.skills)
     IN  \A job \in CatalogJobs :
           SatisfiedWith(job, preferences, kw1, sk1)
               \subseteq SatisfiedWith(job, preferences', kw2, sk2)
             => computeMatchScore(job, preferences) <= computeMatchScore(job, preferences')]_vars

\* C7 witness: after an edit a job satisfies the experience criterion on top
\* of the title criterion.
C7_Witness ==
  /\ lastOp = Op("edit", "ok")
  /\ \E job \in CatalogJobs :
       /\ "experience" \in Satisfied(job, preferences)
       /\ "title" \in Satisfied(job, preferences)
       /\ computeMatchScore(job, preferences) >= 35

----------------------------------------------------------------------------
(* Application status and saved jobs on the dashboard and the saved page *)

JobStatusValues == {"Not Applied", "Applied", "Rejected", "Selected"}

\* the job cards the model clicks on
ClickedJobIds == {1, 2}

InitStatus ==
  /\ catalog = OldCatalog
  /\ today = 1
  /\ route = "dashboard"
  /\ started = FALSE
  /\ crashed = FALSE
  /\ storageWritable = TRUE
  /\ localStorage = EmptyStorage
  /\ bootStorage = localStorage
  /\ InitMemory
  /\ lastOp = Op("none", "ok")

NextStatus ==
  \/ AppStart
  \/ \E r \in {"dashboard", "saved"} : Navigate(r)
  \/ AdvanceDay
  \/ \E id \in ClickedJobIds : handleSaveJob(id)
  \/ \E id \in ClickedJobIds, status \in JobStatusValues : handleChangeStatus(id, status)

SpecStatus == InitStatus /\ [][NextStatus]_vars

\* the records of the stored status map, by string-encoded job id
StoredStatusRecords(store) ==
  IF store.status.kind = "json" /\ store.status.val.t = "obj"
  THEN store.status.val.v
  ELSE [k \in {} |-> JNull]

IdKey(id) == [numeric |-> TRUE, n |-> id]

\* C8 as claimed: the stored status map never holds a record whose status is
\* 'Not Applied'; only Applied, Rejected and Selected are stored.
C8_NotAppliedNeverStored ==
  \A k \in DOMAIN StoredStatusRecords(localStorage) :
    StoredStatusRecords(localStorage)[k].v.status.v \in {"Applied", "Rejected", "Selected"}

\* C8 amended: a status change stores a record with the chosen status for that
\* job, 'Not Applied' included, and leaves every other stored record as it
\* was, so that no record is ever removed and every stored status is one of
\* the four values.
C8_EveryStatusStoredExplicitly ==
  [][\A id \in ClickedJobIds, status \in JobStatusValues :
       handleChangeStatus(id, status) =>
         LET old == StoredStatusRecords(localStorage)
             new == StoredStatusRecords(localStorage')
         IN  /\ DOMAIN new = DOMAIN old \cup {IdKey(id)}
             /\ new[IdKey(id)].v.status.v = status
             /\ \A k \in DOMAIN old : k # IdKey(id) => new[k] = old[k]
             /\ \A k \in DOMAIN new : new[k].v.status.v \in JobStatusValues]_vars

\* C8 witness: a job set to Applied has been returned to Not Applied and is
\* stored with that status, beside a job stored as Selected.
C8_Witness ==
  /\ lastOp = Op("status", "ok")
  /\ toastMessage = "Not Applied"
  /\ DOMAIN StoredStatusRecords(localStorage) = {IdKey(1), IdKey(2)}
  /\ StoredStatusRecords(localStorage)[IdKey(1)].v.status.v = "Not Applied"
  /\ StoredStatusRecords(localStorage)[IdKey(1)].v.updatedAt.v = 2
  /\ StoredStatusRecords(localStorage)[IdKey(2)].v.status.v = "Selected"

----------------------------------------------------------------------------
(* Startup over storage left behind in any shape *)

\* what localStorage may hold under each key when the application starts
SavedRaws ==
  { NoItem, BadText, Stored(JNull), Stored(JNum(5)), Stored(savedToJSON(<<2>>)) }

PreferencesRaws ==
  { NoItem, BadText, Stored(JNull), Stored(JNum(5)),
    Stored(preferencesToJSON(EarlierPreferences)),
    Stored(JObj([skills |-> JStr(TxtSQL)])),
    Stored(JObj([roleKeywords |-> JNum(5)])),
    Stored(JObj([minMatchScore |-> JStr(TxtSQL)])) }

StatusRaws ==
  { NoItem, BadText, Stored(JNull), Stored(JNum(5)),
    Stored(statusesToJSON(withStatus(NoStatuses, 2, "Applied", 1))),
    Stored(JObj([k \in {[numeric |-> TRUE, n |-> 2]} |-> JNull])) }

DigestRaws ==
  { NoItem, BadText, Stored(JNull), Stored(JNum(5)),
    Stored(JObj([items |-> JNum(5)])),
    Stored(digestToJSON(<<[jobId |-> 2, score |-> 40]>>)),
    Stored(JObj([items |-> JArr(<<JNull>>)])) }

InitStartup ==
  /\ catalog = OldCatalog
  /\ today = 1
  /\ route \in {"dashboard", "digest"}
  /\ started = FALSE
  /\ crashed = FALSE
  /\ storageWritable = TRUE
  /\ \E saved \in SavedRaws, prefs \in PreferencesRaws, status \in StatusRaws,
        snapshot \in DigestRaws :
       localStorage = [ savedJobs   |-> saved,
                        preferences |-> prefs,
                        status      |-> status,
                        digest      |-> [d \in Days |-> IF d = 1 THEN snapshot ELSE NoItem] ]
  /\ bootStorage = localStorage
  /\ InitMemory
  /\ lastOp = Op("none", "ok")

NextStartup ==
  \/ AppStart
  \/ \E r \in {"dashboard", "digest"} : Navigate(r)
  \/ GenerateDigest

SpecStartup == InitStartup /\ [][NextStartup]_vars

\* the shape each key's value must have to be usable
WellFormedSaved(raw) ==
  /\ raw.kind = "json" /\ raw.val.t = "arr"
  /\ \A i \in 1..Len(raw.val.v) : raw.val.v[i].t = "num"

FieldHasType(j, f, type) == f \in DOMAIN j.v => j.v[f].t = type

WellFormedPreferences(raw) ==
  /\ raw.kind = "json" /\ raw.val.t = "obj"
  /\ FieldHasType(raw.val, "roleKeywords", "str")
  /\ FieldHasType(raw.val, "skills", "str")
  /\ FieldHasType(raw.val, "experienceLevel", "str")
  /\ FieldHasType(raw.val, "preferredLocations", "arr")
  /\ FieldHasType(raw.val, "preferredModes", "arr")
  /\ FieldHasType(raw.val, "minMatchScore", "num")

WellFormedStatus(raw) ==
  /\ raw.kind = "json" /\ raw.val.t = "obj"
  /\ \A k \in DOMAIN raw.val.v : raw.val.v[k].t = "obj"

WellFormedDigest(raw) ==
  /\ raw.kind = "json" /\ raw.val.t = "obj"
  /\ "items" \in DOMAIN raw.val.v /\ raw.val.v.items.t = "arr"
  /\ \A i \in 1..Len(raw.val.v.items.v) : raw.val.v.items.v[i].t = "obj"

Malformed(raw, wellFormed) == raw.kind # "absent" /\ ~wellFormed

\* C9 as claimed: once the application has started, and once the digest page
\* has loaded today's snapshot, no error has escaped and the view is usable,
\* and every key whose stored value (the one found at startup; for the
\* snapshot, the one found when the digest page loads) was unparsable or of
\* the wrong shape has left its in-memory state at the default.
C9_MalformedStorageTreatedAsAbsent ==
  (started /\ lastOp.name \in {"start", "navigate"}) =>
    /\ ~crashed
    /\ Malformed(bootStorage.savedJobs, WellFormedSaved(bootStorage.savedJobs))
         => savedJobIds = <<>>
    /\ Malformed(bootStorage.preferences, WellFormedPreferences(bootStorage.preferences))
         => preferences = defaultPreferences
    /\ Malformed(bootStorage.status, WellFormedStatus(bootStorage.status))
         => jobStatuses = NoStatuses
    /\ (route = "digest" /\ Malformed(localStorage.digest[digestKey],
                                      WellFormedDigest(localStorage.digest[digestKey])))
         => (digest = NoDigest /\ ~noMatchesToday)

\* a record is stored under the key of date d and it is not a snapshot: it
\* is unparsable, or it parses to something without an items list
BadRecord(store, d) == store.digest[d].kind # "absent" /\ ~HasSnapshot(store, d)

\* C20: a generate request made with non-empty preferences while the record
\* under the page's key is unparsable or lacks an items list raises nothing,
\* stores the freshly computed snapshot over the bad record, exposes it, and
\* leaves the generating flag false.
C20_BadRecordRegenerated ==
  [][(GenerateStep /\ ~EmptyPreferences(preferences) /\ BadRecord(localStorage, digestKey))
       => /\ lastOp'.path \in {"fresh", "empty"}
          /\ ~crashed'
          /\ HasSnapshot(localStorage', digestKey)
          /\ SnapshotItems(localStorage', digestKey) = computeDigestItems(catalog, preferences)
          /\ digest' = [date |-> digestKey, items |-> computeDigestItems(catalog, preferences)]
          /\ ~isGenerating']_vars

----------------------------------------------------------------------------
(* A session in which the storage refuses writes *)

InitWriteFail ==
  /\ catalog = OldCatalog
  /\ today = 1
  /\ route \in {"dashboard", "settings", "digest"}
  /\ started = FALSE
  /\ crashed = FALSE
  /\ storageWritable = TRUE
  /\ localStorage = EmptyStorage
  /\ bootStorage = localStorage
  /\ InitMemory
  /\ lastOp = Op("none", "ok")

NextWriteFail ==
  \/ AppStart
  \/ \E r \in {"dashboard", "settings", "digest"} : Navigate(r)
  \/ StorageFails
  \/ StorageRecovers
  \/ \E id \in ClickedJobIds : handleSaveJob(id)
  \/ \E status \in JobStatusValues : handleChangeStatus(1, status)
  \/ \E v \in {<<>>, TxtKwJavaSql} : EditRoleKeywords(v)
  \/ GenerateDigest

SpecWriteFail == InitWriteFail /\ [][NextWriteFail]_vars

\* C10 as claimed: a save, a status change, a preference edit or a digest
\* generation made while the storage refuses writes still puts the new value
\* in memory (the job is saved, the status is the chosen one, the preferences
\* are the edited ones, the digest is exposed) and leaves the application
\* running.
C10_WriteFailureIgnored ==
  [][~storageWritable =>
       /\ \A id \in ClickedJobIds :
            handleSaveJob(id) => (arrayIncludes(savedJobIds', id) /\ ~crashed')
       /\ \A status \in JobStatusValues :
            handleChangeStatus(1, status) =>
              /\ ~crashed'
              /\ 1 \in DOMAIN jobStatuses'
              /\ jobStatuses'[1].status = status
       /\ \A v \in {<<>>, TxtKwJavaSql} :
            EditRoleKeywords(v) => (preferences'.roleKeywords = v /\ ~crashed')
       /\ (GenerateDigest /\ hasPreferences(preferences)) =>
            /\ ~crashed'
            /\ ~isGenerating'
            /\ digest' = [date |-> digestKey,
                          items |-> computeDigestItems(catalog, preferences)]]_vars

----------------------------------------------------------------------------
(* The dashboard's filters *)

TxtKwAcmeUpper == <<"A", "C", "M", "E", " ">>

\* preferences an earlier session may have stored: a threshold of 0, and
\* blank role keywords beside a threshold off its default
ZeroThresholdPreferences == [EarlierPreferences EXCEPT !.minMatchScore = 0]
BlankPreferences ==
  [defaultPreferences EXCEPT !.roleKeywords = TxtBlank, !.minMatchScore = 100]

FilterStorage(prefs) == [EmptyStorage EXCEPT !.preferences = Stored(preferencesToJSON(prefs))]

InitFilter ==
  /\ catalog = BigCatalog
  /\ today = 1
  /\ route = "dashboard"
  /\ started = FALSE
  /\ crashed = FALSE
  /\ storageWritable = TRUE
  /\ localStorage = FilterStorage(EarlierPreferences)
  /\ bootStorage = localStorage
  /\ InitMemory
  /\ lastOp = Op("none", "ok")

NextFilter ==
  \/ AppStart
  \/ \E v \in {<<>>, TxtBlank, TxtKwReact, TxtKwAcmeUpper} : UpdateKeyword(v)
  \/ \E v \in {"", "Pune"} : UpdateLocation(v)
  \/ \E v \in {"", "Remote"} : UpdateMode(v)
  \/ \E v \in {"", "1-3"} : UpdateExperience(v)
  \/ \E v \in {"", "Naukri"} : UpdateSource(v)
  \/ \E status \in {"Applied", "Rejected"} : handleChangeStatus(1, status)

SpecFilter == InitFilter /\ [][NextFilter]_vars

\* the threshold toggle, over stored preferences of every kind
InitThreshold ==
  /\ catalog \in Catalogs
  /\ today = 1
  /\ route = "dashboard"
  /\ started = FALSE
  /\ crashed = FALSE
  /\ storageWritable = TRUE
  /\ localStorage \in {EmptyStorage, FilterStorage(EarlierPreferences),
                       FilterStorage(ZeroThresholdPreferences),
                       FilterStorage(BlankPreferences)}
  /\ bootStorage = localStorage
  /\ InitMemory
  /\ lastOp = Op("none", "ok")

NextThreshold ==
  \/ AppStart
  \/ \E r \in {"dashboard", "saved"} : Navigate(r)
  \/ \E v \in {"", "Pune"} : UpdateLocation(v)
  \/ \E checked \in BOOLEAN : SetShowOnlyMatches(checked)
  \/ handleChangeStatus(1, "Applied")

SpecThreshold == InitThreshold /\ [][NextThreshold]_vars

----------------------------------------------------------------------------
(* Properties of the dashboard view *)

DashboardShown == started /\ ~crashed /\ route = "dashboard"

JobIds(result) == {result[i].job.id : i \in 1..Len(result)}

\* the jobs listed when f is the only thing set on a fresh dashboard
AloneIds(f, onlyMatches) ==
  JobIds(computeFilteredJobs(catalog, preferences, f, onlyMatches, jobStatuses))

\* the intersection of the views of each set filter taken alone
IntersectionOfSingles(f, onlyMatches) ==
  AloneIds([initialFilters EXCEPT !.keyword = f.keyword], FALSE)
    \cap AloneIds([initialFilters EXCEPT !.location = f.location], FALSE)
    \cap AloneIds([initialFilters EXCEPT !.mode = f.mode], FALSE)
    \cap AloneIds([initialFilters EXCEPT !.experience = f.experience], FALSE)
    \cap AloneIds([initialFilters EXCEPT !.source = f.source], FALSE)
    \cap AloneIds([initialFilters EXCEPT !.status = f.status], FALSE)
    \cap AloneIds(initialFilters, onlyMatches)

\* the memo's value for the dashboard's current inputs, were filters.status st
ViewWithStatus(st) ==
  computeFilteredJobs(catalog, preferences, [filters EXCEPT !.status = st],
                      showOnlyMatches, jobStatuses)

\* C11: the jobs in the dashboard's view are exactly those in the intersection
\* of the views obtained by applying each set filter alone, and so are the
\* jobs filteredJobs returns for each value of the status filter.
C11_ViewIsIntersection ==
  DashboardShown =>
    /\ JobIds(filteredJobs) = IntersectionOfSingles(filters, showOnlyMatches)
    /\ \A st \in JobStatusValues :
         JobIds(ViewWithStatus(st))
           = IntersectionOfSingles([filters EXCEPT !.status = st], showOnlyMatches)

\* C11 witness: location and source are set together; the view is not empty
\* and is smaller than the view of each of them alone, and smaller again
\* when filtered by the status of the one job that has been applied to.
C11_Witness ==
  /\ DashboardShown
  /\ filters.location = "Pune" /\ filters.source = "Naukri"
  /\ JobIds(filteredJobs) # {}
  /\ JobIds(filteredJobs) # AloneIds([initialFilters EXCEPT !.location = "Pune"], FALSE)
  /\ JobIds(filteredJobs) # AloneIds([initialFilters EXCEPT !.source = "Naukri"], FALSE)
  /\ JobIds(ViewWithStatus("Applied")) = {1}
  /\ JobIds(ViewWithStatus("Applied")) # JobIds(filteredJobs)

\* the catalog jobs that have no stored status record
WithoutRecord == {i \in 1..Len(catalog) : catalog[i].id \notin DOMAIN jobStatuses}

\* C12: a job without a status record is shown with status 'Not Applied'; the
\* view filtered by 'Not Applied' lists it whenever the view without a status
\* filter does, and the view filtered by any other status does not list it.
C12_DefaultStatusIsNotApplied ==
  (started /\ ~crashed) =>
    \A i \in WithoutRecord :
      /\ cardStatus(jobStatuses, catalog[i].id) = "Not Applied"
      /\ route = "dashboard" =>
           /\ catalog[i].id \in JobIds(ViewWithStatus("Not Applied"))
                <=> catalog[i].id \in JobIds(filteredJobs)
           /\ \A st \in JobStatusValues \ {"Not Applied"} :
                catalog[i].id \notin JobIds(ViewWithStatus(st))

\* C12 witness: the view is filtered by location; job 1 is stored as Applied
\* and leaves the view when it is filtered by 'Not Applied', the listed jobs
\* without a record stay.
C12_Witness ==
  /\ DashboardShown
  /\ filters.location = "Pune"
  /\ 1 \in DOMAIN jobStatuses /\ jobStatuses[1].status = "Applied"
  /\ 1 \in JobIds(filteredJobs)
  /\ 1 \notin JobIds(ViewWithStatus("Not Applied"))
  /\ \E i \in WithoutRecord : catalog[i].id \in JobIds(ViewWithStatus("Not Applied"))
  /\ \E i \in WithoutRecord : catalog[i].id \notin JobIds(ViewWithStatus("Not Applied"))

----------------------------------------------------------------------------
(* Preferences across sessions *)

\* the preferences values a session can leave in storage
RoundTripValues ==
  { [ roleKeywords       |-> k,
      preferredLocations |-> l,
      preferredModes     |-> m,
      experienceLevel    |-> e,
      skills             |-> sk,
      minMatchScore      |-> t ] :
      k \in {<<>>, TxtBlank, TxtKwJavaSql}, l \in {<<>>, <<"Delhi", "Pune">>},
      m \in {<<>>, <<"Remote">>}, e \in {"", "1-3"}, sk \in {<<>>, TxtSkCss},
      t \in {0, 40, 100} }

\* records that lack some fields, as older versions or other tools write them
EmptyObject == JObj([f \in {} |-> JNull])

PartialRecords ==
  { Stored(EmptyObject),
    Stored(JObj([skills |-> JStr(TxtSQL)])),
    Stored(JObj([minMatchScore |-> JNum(0)])),
    Stored(JObj([preferredLocations |-> strArrayToJSON(<<"Pune">>),
                 experienceLevel |-> JStr("1-3")])),
    Stored(JObj([roleKeywords |-> JStr(TxtKwReact),
                 preferredModes |-> strArrayToJSON(<<"Onsite", "Remote">>)])) }

InitRoundTrip ==
  /\ catalog = OldCatalog
  /\ today = 1
  /\ route = "settings"
  /\ started = FALSE
  /\ crashed = FALSE
  /\ storageWritable = TRUE
  /\ \E raw \in {NoItem} \cup PartialRecords
                  \cup {Stored(preferencesToJSON(P)) : P \in RoundTripValues} :
       localStorage = [EmptyStorage EXCEPT !.preferences = raw]
  /\ bootStorage = localStorage
  /\ InitMemory
  /\ lastOp = Op("none", "ok")

NextRoundTrip ==
  \/ AppStart
  \/ Reload
  \/ EditRoleKeywords(TxtKwJavaSql)
  \/ EditSkills(TxtSkCss)
  \/ EditExperienceLevel("1-3")
  \/ EditMinMatchScore(0)
  \/ ChangeLocations(<<"Delhi", "Pune">>)
  \/ toggleMode("Remote")

SpecRoundTrip == InitRoundTrip /\ [][NextRoundTrip]_vars

PreferenceFields ==
  {"roleKeywords", "preferredLocations", "preferredModes", "experienceLevel",
   "skills", "minMatchScore"}

\* the defaults as the specification lists them
ListedDefaults ==
  [ roleKeywords |-> <<>>, preferredLocations |-> <<>>, preferredModes |-> <<>>,
    experienceLevel |-> "", skills |-> <<>>, minMatchScore |-> 40 ]

\* the value a stored field stands for
StoredFieldValue(j) ==
  IF j.t = "arr" THEN [i \in 1..Len(j.v) |-> j.v[i].v] ELSE j.v

JustStarted == started /\ ~crashed /\ lastOp.name = "start"

\* C13: after the startup load, preferences stored by serializing P are P
\* again, field by field, and a stored record that lacks fields gives each
\* missing field its default and each present field its stored value.
C13_PreferencesRoundTrip ==
  JustStarted =>
    /\ \A P \in RoundTripValues :
         bootStorage.preferences = Stored(preferencesToJSON(P)) => preferences = P
    /\ bootStorage.preferences \in PartialRecords =>
         \A f \in PreferenceFields :
           preferences[f] = IF f \in DOMAIN bootStorage.preferences.val.v
                            THEN StoredFieldValue(bootStorage.preferences.val.v[f])
                            ELSE ListedDefaults[f]

\* C13 witness: the application has started over stored preferences with a
\* threshold of 0 and non-default values in every other field.
C13_Witness ==
  /\ JustStarted
  /\ bootStorage.preferences = Stored(preferencesToJSON(preferences))
  /\ preferences.minMatchScore = 0
  /\ preferences.roleKeywords = TxtKwJavaSql
  /\ preferences.skills = TxtSkCss
  /\ preferences.preferredLocations = <<"Delhi", "Pune">>
  /\ preferences.preferredModes = <<"Remote">>
  /\ preferences.experienceLevel = "1-3"

----------------------------------------------------------------------------
(* The saved list *)

SavedJobIdsToClick == {1, 2, 3}

InitSaved ==
  /\ catalog = OldCatalog
  /\ today = 1
  /\ route \in {"dashboard", "saved"}
  /\ started = FALSE
  /\ crashed = FALSE
  /\ storageWritable = TRUE
  /\ \E ids \in {<<>>, <<2>>, <<3, 1>>} :
       localStorage = [EmptyStorage EXCEPT !.savedJobs =
                         IF ids = <<>> THEN NoItem ELSE Stored(savedToJSON(ids))]
  /\ bootStorage = localStorage
  /\ InitMemory
  /\ lastOp = Op("none", "ok")

NextSaved ==
  \/ AppStart
  \/ \E r \in {"dashboard", "saved"} : Navigate(r)
  \/ \E id \in SavedJobIdsToClick : handleSaveJob(id)
  \/ \E v \in {"", "Pune"} : UpdateLocation(v)
  \/ handleChangeStatus(2, "Applied")

SpecSaved == InitSaved /\ [][NextSaved]_vars

IsPrefix(a, b) == Len(a) <= Len(b) /\ SubSeq(b, 1, Len(a)) = a

DuplicateFree(ids) == \A i, j \in 1..Len(ids) : ids[i] = ids[j] => i = j

\* C14: across every step the saved list keeps each id at its position and
\* at most gains ids at the end, it stays duplicate-free, and saving an id
\* that is already saved changes neither the list nor the storage.
C14_SavedOnlyGrows ==
  [][/\ IsPrefix(savedJobIds, savedJobIds')
     /\ DuplicateFree(savedJobIds) => DuplicateFree(savedJobIds')
     /\ \A id \in SavedJobIdsToClick :
          (handleSaveJob(id) /\ id \in Elements(savedJobIds))
            => UNCHANGED <<savedJobIds, localStorage>>
     /\ \A id \in SavedJobIdsToClick :
          (handleSaveJob(id) /\ id \notin Elements(savedJobIds))
            => savedJobIds' = Append(savedJobIds, id)]_vars

\* C14 witness: a list loaded from storage has been extended by a save, and
\* the last click was on a job that was already saved.
C14_Witness ==
  /\ savedJobIds = <<3, 1, 2>>
  /\ bootStorage.savedJobs = Stored(savedToJSON(<<3, 1>>))
  /\ localStorage.savedJobs = Stored(savedToJSON(savedJobIds))
  /\ lastOp = Op("save", "noop")

----------------------------------------------------------------------------
(* Persistence of the three stores *)

\* what an earlier session may have left: a saved job, a status, preferences
PersistedStorage ==
  [ EmptyStorage EXCEPT
      !.savedJobs   = Stored(savedToJSON(<<2>>)),
      !.status      = Stored(statusesToJSON(withStatus(NoStatuses, 2, "Rejected", 1))),
      !.preferences = Stored(preferencesToJSON(EarlierPreferences)) ]

InitPersist ==
  /\ catalog = OldCatalog
  /\ today = 1
  /\ route \in {"dashboard", "settings"}
  /\ started = FALSE
  /\ crashed = FALSE
  /\ storageWritable = TRUE
  /\ localStorage \in {EmptyStorage, PersistedStorage}
  /\ bootStorage = localStorage
  /\ InitMemory
  /\ lastOp = Op("none", "ok")

NextPersist ==
  \/ AppStart
  \/ \E r \in {"dashboard", "saved", "settings"} : Navigate(r)
  \/ AdvanceDay
  \/ \E id \in ClickedJobIds : handleSaveJob(id)
  \/ \E id \in ClickedJobIds, status \in {"Applied", "Not Applied"} :
       handleChangeStatus(id, status)
  \/ EditRoleKeywords(TxtKwJavaSql)
  \/ toggleMode("Onsite")

SpecPersist == InitPersist /\ [][NextPersist]_vars

\* the stored saved list holds exactly the ids in memory, in order
SavedListStored(store, ids) ==
  /\ store.savedJobs.kind = "json" /\ store.savedJobs.val.t = "arr"
  /\ Len(store.savedJobs.val.v) = Len(ids)
  /\ \A i \in 1..Len(ids) : store.savedJobs.val.v[i] = JNum(ids[i])

\* the stored status map holds exactly the records in memory
StatusMapStored(store, statuses) ==
  /\ DOMAIN StoredStatusRecords(store) = {IdKey(id) : id \in DOMAIN statuses}
  /\ \A id \in DOMAIN statuses :
       /\ StoredStatusRecords(store)[IdKey(id)].v.status.v = statuses[id].status
       /\ StoredStatusRecords(store)[IdKey(id)].v.updatedAt.v = statuses[id].updatedAt

\* the stored preferences hold exactly the fields in memory
PreferencesStored(store, prefs) ==
  /\ store.preferences.kind = "json" /\ store.preferences.val.t = "obj"
  /\ DOMAIN store.preferences.val.v = PreferenceFields
  /\ \A f \in PreferenceFields : StoredFieldValue(store.preferences.val.v[f]) = prefs[f]

\* C15: after a completed save, status change or preference edit the record
\* under the store's key is the serialization of the value in memory, and a
\* status change for one job leaves the stored records of the others as they
\* were.
C15_PersistenceFollowsChange ==
  [][~crashed' =>
       /\ lastOp'.name = "save" => SavedListStored(localStorage', savedJobIds')
       /\ lastOp'.name = "status" => StatusMapStored(localStorage', jobStatuses')
       /\ lastOp'.name = "edit" => PreferencesStored(localStorage', preferences')
       /\ \A id \in ClickedJobIds, status \in JobStatusValues :
            handleChangeStatus(id, status) =>
              \A k \in DOMAIN StoredStatusRecords(localStorage) \ {IdKey(id)} :
                /\ k \in DOMAIN StoredStatusRecords(localStorage')
                /\ StoredStatusRecords(localStorage')[k] = StoredStatusRecords(localStorage)[k]]_vars

\* C15 witness: job 1's status has just been set to Not Applied on the day
\* after job 2's record was stored, beside a saved list of two and edited
\* preferences, all three in storage as in memory.
C15_Witness ==
  /\ lastOp = Op("status", "ok") /\ toastMessage = "Not Applied"
  /\ DOMAIN jobStatuses = {1, 2}
  /\ jobStatuses[1] = [status |-> "Not Applied", updatedAt |-> 2]
  /\ jobStatuses[2] = [status |-> "Rejected", updatedAt |-> 1]
  /\ StatusMapStored(localStorage, jobStatuses)
  /\ savedJobIds = <<2, 1>> /\ SavedListStored(localStorage, savedJobIds)
  /\ preferences.roleKeywords = TxtKwJavaSql /\ preferences.preferredModes = <<"Onsite">>
  /\ PreferencesStored(localStorage, preferences)

----------------------------------------------------------------------------
(* The order of the dashboard view *)

InitSort ==
  /\ catalog \in Catalogs
  /\ today = 1
  /\ route = "dashboard"
  /\ started = FALSE
  /\ crashed = FALSE
  /\ storageWritable = TRUE
  /\ localStorage \in {EmptyStorage, FilterStorage(EarlierPreferences),
                       FilterStorage(ZeroThresholdPreferences)}
  /\ bootStorage = localStorage
  /\ InitMemory
  /\ lastOp = Op("none", "ok")

NextSort ==
  \/ AppStart
  \/ \E v \in {"latest", "matchScore", "salary"} : UpdateSort(v)
  \/ \E v \in {<<>>, TxtKwReact} : UpdateKeyword(v)
  \/ \E v \in {"", "Pune"} : UpdateLocation(v)
  \/ \E checked \in BOOLEAN : SetShowOnlyMatches(checked)
  \/ \E id \in ClickedJobIds : handleSaveJob(id)

SpecSort == InitSort /\ [][NextSort]_vars

\* the position of a job in the catalog
CatalogIndex(job) == CHOOSE i \in 1..Len(catalog) : catalog[i] = job

\* the sort key of a view entry, larger-first except for 'latest'
SortKey(sort, e) ==
  IF sort = "matchScore" THEN e.score
  ELSE IF sort = "salary" THEN extractSalaryValue(e.job.salaryRange)
  ELSE 0 - e.job.postedDaysAgo

\* C16: along the view the chosen key never goes the wrong way (days since
\* posted never decrease under 'latest', score and salary never increase
\* under theirs), entries with equal keys are in catalog order, each entry
\* carries the job's match score, and the catalog is in its original order.
C16_ViewSortedStable ==
  DashboardShown =>
    /\ \A i, j \in 1..Len(filteredJobs) :
         i < j =>
           /\ SortKey(filters.sort, filteredJobs[i]) >= SortKey(filters.sort, filteredJobs[j])
           /\ SortKey(filters.sort, filteredJobs[i]) = SortKey(filters.sort, filteredJobs[j])
                => CatalogIndex(filteredJobs[i].job) < CatalogIndex(filteredJobs[j].job)
    /\ \A i \in 1..Len(filteredJobs) :
         filteredJobs[i].score = computeMatchScore(filteredJobs[i].job, preferences)
    /\ \A i \in 1..Len(catalog) : catalog[i].id = i

\* C16 witness: a view sorted by salary in which two jobs share a salary,
\* two differ, and the first job listed is not the first of the catalog.
C16_Witness ==
  /\ DashboardShown
  /\ filters.sort = "salary"
  /\ Len(filteredJobs) >= 4
  /\ filteredJobs[1].job.id # 1
  /\ SortKey("salary", filteredJobs[1]) = SortKey("salary", filteredJobs[2])
  /\ SortKey("salary", filteredJobs[1]) > SortKey("salary", filteredJobs[Len(filteredJobs)])

----------------------------------------------------------------------------
(* The threshold toggle *)

\* the memo's value for the dashboard's current inputs, were the toggle onlyMatches
ViewWithToggle(onlyMatches) ==
  computeFilteredJobs(catalog, preferences, filters, onlyMatches, jobStatuses)

\* the entries of result that score at least the threshold, in order
AtLeastThreshold(result, threshold) ==
  filterAt(result, {i \in 1..Len(result) : result[i].score >= threshold})

\* some field other than the threshold differs from its default value
NonDefaultPreferences(p) ==
  \/ p.roleKeywords # <<>>
  \/ p.skills # <<>>
  \/ p.preferredLocations # <<>>
  \/ p.preferredModes # <<>>
  \/ p.experienceLevel # ""

----------------------------------------------------------------------------
(* The digest text *)

\* a snapshot stored by an earlier session: its scores are not the ones the
\* stored preferences give now, and job 7 has left the catalog since
EarlierSnapshot ==
  << [jobId |-> 7, score |-> 90], [jobId |-> 3, score |-> 55], [jobId |-> 1, score |-> 20] >>

SnapshotStorage ==
  [ FilterStorage(EarlierPreferences) EXCEPT
      !.digest = [d \in Days |-> IF d = 1 THEN Stored(digestToJSON(EarlierSnapshot))
                                 ELSE NoItem] ]

InitDigestText ==
  /\ catalog = OldCatalog
  /\ today = 1
  /\ route \in {"settings", "digest"}
  /\ started = FALSE
  /\ crashed = FALSE
  /\ storageWritable = TRUE
  /\ localStorage \in {FilterStorage(EarlierPreferences), SnapshotStorage}
  /\ bootStorage = localStorage
  /\ InitMemory
  /\ lastOp = Op("none", "ok")

NextDigestText ==
  \/ AppStart
  \/ \E r \in {"settings", "digest"} : Navigate(r)
  \/ AdvanceDay
  \/ GenerateDigest
  \/ \E v \in {<<>>, TxtKwJavaSql} : EditRoleKeywords(v)
  \/ handleCopy
  \/ handleEmailDraft

SpecDigestText == InitDigestText /\ [][NextDigestText]_vars

CatalogIds == {catalog[i].id : i \in 1..Len(catalog)}

\* the positions of the snapshot's items whose job is in the catalog
KnownPositions(snapshot) == {i \in 1..Len(snapshot) : snapshot[i].jobId \in CatalogIds}

\* the k-th of those positions
KnownPosition(snapshot, k) ==
  CHOOSE i \in KnownPositions(snapshot) :
    Cardinality({j \in KnownPositions(snapshot) : j <= i}) = k

\* the lines are the snapshot's catalog jobs in snapshot order, ranked 1, 2, ..
\* with the recorded scores
ProjectsSnapshot(lines, snapshot) ==
  /\ Len(lines) = Cardinality(KnownPositions(snapshot))
  /\ \A k \in 1..Len(lines) :
       LET item == snapshot[KnownPosition(snapshot, k)]
           job  == CHOOSE c \in CatalogJobs : c.id = item.jobId
       IN  /\ lines[k].rank = k
           /\ lines[k].score = item.score
           /\ lines[k].title = job.title /\ lines[k].company = job.company

\* C18: the text handed to the clipboard or to the mail client lists the jobs
\* of the snapshot stored under the page's key that are in the catalog, in
\* snapshot order, ranked consecutively, each with its recorded score.
C18_TextProjectsSnapshot ==
  [][(lastOp'.name \in {"copy", "email"} /\ lastOp'.path = "ok")
       => ProjectsSnapshot(draft'.lines, SnapshotItems(localStorage, digestKey))]_vars

\* C18 witness: an email draft of a snapshot with an entry for a job that has
\* left the catalog; the two remaining jobs are ranked 1 and 2 with recorded
\* scores that the preferences of the moment would not give.
C18_Witness ==
  /\ lastOp = Op("email", "ok")
  /\ draft.kind = "email"
  /\ Len(draft.lines) = 2
  /\ draft.lines[1].rank = 1 /\ draft.lines[1].title = TxtQA /\ draft.lines[1].score = 55
  /\ draft.lines[2].rank = 2 /\ draft.lines[2].title = TxtReact /\ draft.lines[2].score = 20
  /\ preferences.roleKeywords = TxtKwJavaSql
  /\ computeMatchScore(catalog[1], preferences) # 20
  /\ computeMatchScore(catalog[3], preferences) # 55

----------------------------------------------------------------------------
(* The salary value *)

Txt12k      == <<"1", "2", "k">>
Txt12KUpper == <<"1", "2", "K">>
Txt10LPA    == <<"1", "0", " ", "L", "P", "A">>
Txt8Lpa     == <<"8", " ", "L", "p", "a">>
Txt3to5lpa  == <<"3", "-", "5", " ", "l", "p", "a">>
Txt5kLPA    == <<"5", "k", " ", "L", "P", "A">>
Txt15kTo20k == <<"1", "5", "k", "-", "2", "0", "k">>
Txt700      == <<"7", "0", "0">>
TxtK9       == <<"K", "9">>
TxtNoDigits == <<"n", "o", " ", "d", "i", "g", "i", "t", "s">>
TxtLpaNoDigits  == <<"l", "p", "a", " ", "k">>

SalaryTexts ==
  { Txt12k, Txt12KUpper, Txt10LPA, Txt8Lpa, Txt3to5lpa, Txt5kLPA, Txt15kTo20k,
    Txt700, TxtK9, TxtNoDigits, TxtLpaNoDigits, <<>> }

\* two jobs that differ from the fixtures in the salary text only
SalaryCatalog(a, b) ==
  << [OldCatalog[1] EXCEPT !.salaryRange = a], [OldCatalog[2] EXCEPT !.salaryRange = b] >>

InitSalary ==
  /\ catalog \in {SalaryCatalog(a, b) : a, b \in SalaryTexts}
  /\ today = 1
  /\ route = "dashboard"
  /\ started = FALSE
  /\ crashed = FALSE
  /\ storageWritable = TRUE
  /\ localStorage = EmptyStorage
  /\ bootStorage = localStorage
  /\ InitMemory
  /\ lastOp = Op("none", "ok")

NextSalary ==
  \/ AppStart
  \/ \E v \in {"latest", "salary"} : UpdateSort(v)

SpecSalary == InitSalary /\ [][NextSalary]_vars

\* the positions of the decimal digits of a text
DigitPositions(text) == {i \in 1..Len(text) : text[i] \in {"0", "1", "2", "3", "4", "5", "6", "7", "8", "9"}}

\* the number the digits at positions a..b spell, read from the left
RECURSIVE Spelled(_, _, _)
Spelled(text, a, b) ==
  IF a > b THEN 0
  ELSE LET d == CHOOSE n \in 0..9 : DigitValue(text[a]) = n
           RECURSIVE Ten(_)
           Ten(e) == IF e = 0 THEN 1 ELSE 10 * Ten(e - 1)
       IN  d * Ten(b - a) + Spelled(text, a + 1, b)

\* the value of the first run of digits of a text that has one
FirstRunValue(text) ==
  LET a == CHOOSE i \in DigitPositions(text) : \A j \in DigitPositions(text) : i <= j
      b == CHOOSE k \in a..Len(text) :
             /\ a..k \subseteq DigitPositions(text)
             /\ k + 1 \notin DigitPositions(text)
  IN  Spelled(text, a, b)

\* the word occurs in the text as written
Occurs(word, text) ==
  \E i \in 1..(Len(text) - Len(word) + 1) : SubSeq(text, i, i + Len(word) - 1) = word

\* the word occurs in the text in some letter case
OccursAnyCase(word, text) ==
  \E i \in 1..(Len(text) - Len(word) + 1) :
    \A n \in 1..Len(word) : LowerChar(text[i + n - 1]) = word[n]

\* the salary value with 'lpa' looked for in any letter case and 'k' as written
SalaryWithK(text) ==
  IF DigitPositions(text) = {} THEN 0
  ELSE IF OccursAnyCase(<<"l", "p", "a">>, text) THEN FirstRunValue(text) * 100000
  ELSE IF Occurs(<<"k">>, text) THEN FirstRunValue(text) * 1000
  ELSE FirstRunValue(text)

\* the salary value with both 'lpa' and 'k' looked for in any letter case
SalaryWithKAnyCase(text) ==
  IF DigitPositions(text) = {} THEN 0
  ELSE IF OccursAnyCase(<<"l", "p", "a">>, text) THEN FirstRunValue(text) * 100000
  ELSE IF OccursAnyCase(<<"k">>, text) THEN FirstRunValue(text) * 1000
  ELSE FirstRunValue(text)

SortedBySalary == DashboardShown /\ filters.sort = "salary"

\* C19 as stated: the salary of every job in a view sorted by salary is 0 for
\* a text without digits, else its first run of digits times 100000 if the
\* text has 'lpa' in any letter case, else times 1000 if it has 'k', else
\* times 1.
C19_SalaryValueWithK ==
  SortedBySalary =>
    \A i \in 1..Len(filteredJobs) :
      extractSalaryValue(filteredJobs[i].job.salaryRange)
        = SalaryWithK(filteredJobs[i].job.salaryRange)

\* C19 amended: the same with 'k' looked for in any letter case as well, and
\* the view lists the larger of these values first; '12k' gives 12000,
\* '10 LPA' gives 1000000 and 'no digits' gives 0.
C19_SalaryValueWithKAnyCase ==
  SortedBySalary =>
    /\ \A i \in 1..Len(filteredJobs) :
         extractSalaryValue(filteredJobs[i].job.salaryRange)
           = SalaryWithKAnyCase(filteredJobs[i].job.salaryRange)
    /\ \A i, j \in 1..Len(filteredJobs) :
         i < j => SalaryWithKAnyCase(filteredJobs[i].job.salaryRange)
                    >= SalaryWithKAnyCase(filteredJobs[j].job.salaryRange)
    /\ \A i \in 1..Len(filteredJobs) :
         LET text == filteredJobs[i].job.salaryRange IN
         /\ text = Txt12k => extractSalaryValue(text) = 12000
         /\ text = Txt10LPA => extractSalaryValue(text) = 1000000
         /\ text = TxtNoDigits => extractSalaryValue(text) = 0

\* C19 witness: a view sorted by salary that lists the catalog's second job,
\* paying '5k LPA' and worth 500000, ahead of its first, paying '12K' and
\* worth 12000.
C19_Witness ==
  /\ SortedBySalary
  /\ Len(filteredJobs) = 2
  /\ filteredJobs[1].job.id = 2
  /\ filteredJobs[1].job.salaryRange = Txt5kLPA
  /\ extractSalaryValue(filteredJobs[1].job.salaryRange) = 500000
  /\ filteredJobs[2].job.salaryRange = Txt12KUpper
  /\ extractSalaryValue(filteredJobs[2].job.salaryRange) = 12000

----------------------------------------------------------------------------
(* The status filter while statuses change *)

InitStatusFilter ==
  /\ catalog = OldCatalog
  /\ today = 1
  /\ route = "dashboard"
  /\ started = FALSE
  /\ crashed = FALSE
  /\ storageWritable = TRUE
  /\ localStorage = EmptyStorage
  /\ bootStorage = localStorage
  /\ InitMemory
  /\ lastOp = Op("none", "ok")

NextStatusFilter ==
  \/ AppStart
  \/ \E v \in {"", "Pune"} : UpdateLocation(v)
  \/ \E v \in {"", "Not Applied", "Applied"} : UpdateStatus(v)
  \/ \E id \in ClickedJobIds, st \in {"Not Applied", "Applied", "Rejected"} :
       handleChangeStatus(id, st)

SpecStatusFilter == InitStatusFilter /\ [][NextStatusFilter]_vars

\* the status the status map holds for a job now
CurrentStatus(id) ==
  IF id \in DOMAIN jobStatuses THEN jobStatuses[id].status ELSE "Not Applied"

\* the jobs that pass the filters other than the status filter
PassingOtherFilters == JobIds(ViewWithStatus(""))

----------------------------------------------------------------------------
(* The notification and its dismiss timer *)

InitToast ==
  /\ catalog = OldCatalog
  /\ today = 1
  /\ route = "dashboard"
  /\ started = FALSE
  /\ crashed = FALSE
  /\ storageWritable = TRUE
  /\ localStorage = EmptyStorage
  /\ bootStorage = localStorage
  /\ InitMemory
  /\ lastOp = Op("none", "ok")

NextToast ==
  \/ AppStart
  \/ \E r \in {"dashboard", "saved"} : Navigate(r)
  \/ \E id \in ClickedJobIds : handleSaveJob(id)
  \/ \E id \in ClickedJobIds, st \in {"Applied", "Rejected"} : handleChangeStatus(id, st)
  \/ \E i \in 1..Len(toastTimers) : ToastTimeout(i)

SpecToast == InitToast /\ [][NextToast]_vars

\* C22: at most one dismiss timer is pending; every status change leaves the
\* notification shown with one pending timer, started by that change; and a
\* timer that clears the notification was started by the most recent change.
C22_DismissAfterLatestChange ==
  [][/\ Len(toastTimers') <= 1
     /\ (lastOp'.name = "status" /\ ~crashed')
          => /\ toastMessage' # NoToast
             /\ toastTimers' = <<NewTimer>>
     /\ lastOp'.name = "toast-timeout"
          => \A i \in 1..Len(toastTimers) : toastTimers[i].afterLatestChange]_vars

----------------------------------------------------------------------------
(* Startup with the mount effects run once or twice *)

InitStartupTwice ==
  /\ catalog = OldCatalog
  /\ today = 1
  /\ route = "settings"
  /\ started = FALSE
  /\ crashed = FALSE
  /\ storageWritable = TRUE
  /\ \E raw \in {NoItem} \cup PartialRecords
                  \cup {Stored(preferencesToJSON(P)) : P \in RoundTripValues} :
       localStorage = [EmptyStorage EXCEPT !.preferences = raw]
  /\ bootStorage = localStorage
  /\ InitMemory
  /\ lastOp = Op("none", "ok")

NextStartupTwice ==
  \/ AppStart
  \/ AppStartStrict
  \/ Reload
  \/ EditSkills(TxtSkCss)
  \/ EditMinMatchScore(0)

SpecStartupTwice == InitStartupTwice /\ [][NextStartupTwice]_vars

\* the stored record found at startup, merged over the listed defaults
StoredOverDefaults ==
  [f \in PreferenceFields |->
     IF f \in DOMAIN bootStorage.preferences.val.v
     THEN StoredFieldValue(bootStorage.preferences.val.v[f])
     ELSE ListedDefaults[f]]

\* C23: once the application has started over a valid stored preferences
\* record, with the mount effects run once or twice, the preferences in
\* memory and the stored record are both that record merged over the defaults.
C23_StartupKeepsStoredPreferences ==
  (JustStarted /\ bootStorage.preferences.kind = "json") =>
    /\ preferences = StoredOverDefaults
    /\ localStorage.preferences = Stored(preferencesToJSON(StoredOverDefaults))

====
